---- MODULE Spec2Model ----
(***************************************************************************)
(* A model of blazon's schema engine: Environment, Schema.compile,         *)
(* Schema.validate, Schema.__call__ (convert), Schema.build_error and the  *)
(* constraint handlers of constraints/base.py, numbers.py, conditionals.py,*)
(* containers.py, maps.py and formats.py, in the native and the JSON       *)
(* Schema environment.                                                     *)
(*                                                                         *)
(* A Python value is a record [k, v, num]: k is its kind ("int", "str",    *)
(* "none", ...); an int carries its number in v; a str is either the       *)
(* decimal numeral of v (num = TRUE) or one of a few non-numeric strings.  *)
(* A list carries its elements in a further field items, a dict its        *)
(* entries, in insertion order, in a further field entries.                *)
(* An exception is a record with the class name in exc; a raw schema value *)
(* (a dict) is the sequence of its items in insertion order.               *)
(***************************************************************************)
EXTENDS Integers, Sequences, FiniteSets, TLC

\* schema: the Schema object under test (its raw value, environment,
\*   strictness, declared type and handler table); ids_collide: whether the
\*   id()-based hashes of two temporary dict views come out equal in this
\*   process; op, instance, partial: the call in progress on the schema
\*   ("idle" when none); result: what it returned or raised.
\* The Schema object under test and the call in progress on it: the
\* operation, its arguments, what it returned or raised, and the object the
\* caller passed as the call left it
VARIABLES schema, ids_collide, op, instance, partial, result, argument
\* An Environment with its cache of schemas, and a ConstraintRegistry
VARIABLES environment, schemas, registry
\* A thread in Schema.compile and a thread in Schema.validate, on one Schema
VARIABLES writer, reader
\* The raw values Environment.schema is compiling, innermost last, and the
\* raw values by identity
VARIABLES stack, nodes

env_vars == <<environment, schemas, registry>>
thread_vars == <<writer, reader>>
cycle_vars == <<stack, nodes>>
vars == <<schema, ids_collide, op, instance, partial, result, argument,
          env_vars, thread_vars, cycle_vars>>

\* ---------------------------------------------------------------- bounds
MaxInt == 4
MaxLimit == 2
MaxKeys == 2
MaxSubs == 2
MaxItems == 3

\* ---------------------------------------------------------------- values
IntV(i) == [k |-> "int", v |-> i, num |-> TRUE]
StrNum(i) == [k |-> "str", v |-> i, num |-> TRUE]
StrA == [k |-> "str", v |-> 0, num |-> FALSE]
StrNone == [k |-> "str", v |-> 1, num |-> FALSE]
NoneV == [k |-> "none", v |-> 0, num |-> FALSE]

\* False (a bool is an int worth 0), a float, a string that is a date-time,
\* the text str() makes of a container, and an object that is neither a
\* number nor a container (a Schema used as a value)
FalseV == [k |-> "bool", v |-> 0, num |-> TRUE]
FloatV(i) == [k |-> "float", v |-> i, num |-> TRUE]
StrDateTime == [k |-> "str", v |-> 2, num |-> FALSE]
StrRepr == [k |-> "str", v |-> 3, num |-> FALSE]
ObjectV == [k |-> "object", v |-> 0, num |-> FALSE]

\* A list of values; a dict as the sequence of its (key, value) entries
ListV(xs) == [k |-> "list", v |-> 0, num |-> FALSE, items |-> xs]
Entry(key, val) == [key |-> key, val |-> val]
DictV(es) == [k |-> "dict", v |-> 0, num |-> FALSE, entries |-> es]

\* dict operations: `key in d`, d[key], d[key] = val
DictHas(d, key) == \E x \in DOMAIN d.entries : d.entries[x].key = key
DictGet(d, key) ==
    d.entries[CHOOSE x \in DOMAIN d.entries : d.entries[x].key = key].val
DictSet(d, key, val) ==
    [d EXCEPT !.entries =
        [x \in DOMAIN d.entries |->
            IF d.entries[x].key = key THEN Entry(key, val) ELSE d.entries[x]]]

IntRange == -1 .. MaxInt
Limits == 1 .. MaxLimit
Ints == {IntV(i) : i \in IntRange}
Instances == Ints \cup {StrNum(i) : i \in Limits} \cup {StrA, NoneV}

\* a == b in Python: numbers compare by value (False == 0), anything else by
\* kind and content
IsNumber(i) == i.k \in {"int", "bool", "float"}
PyEq(a, b) == IF IsNumber(a) /\ IsNumber(b) THEN a.v = b.v ELSE a = b

\* isinstance(instance, cls) for the classes the registry and the type
\* constraint use
IsInstance(i, cls) ==
    CASE cls = "int" -> i.k \in {"int", "bool"}
      [] cls = "str" -> i.k = "str"
      [] cls = "float" -> i.k = "float"
      [] cls = "dict" -> i.k = "dict"
      [] cls = "list" -> i.k = "list"
      [] cls = "Number" -> IsNumber(i)
      [] cls = "Iterable" -> i.k \in {"str", "list", "dict"}
      [] cls = "Sized" -> i.k \in {"str", "list", "dict"}
      [] cls = "Mapping" -> i.k = "dict"
      [] OTHER -> FALSE

\* issubclass(t, cls)
IsSubclass(t, cls) ==
    CASE cls = "Number" -> t \in {"int", "float"}
      [] cls = "Iterable" -> t \in {"str", "list", "dict"}
      [] cls = "Sized" -> t \in {"str", "list", "dict"}
      [] cls = "Mapping" -> t = "dict"
      [] OTHER -> t = cls

\* isinstance(value, type): what a primitive name may resolve to; the tuple
\* (Number, Decimal) and None are not types
IsType(value) == value \in {"int", "str", "float", "dict"}

\* Environment.primitives of the default (native) environment, and of the
\* JSON Schema environment (the names that resolve to int, str, float and
\* dict, and the two that resolve to something that is not a type)
Primitives ==
    [name \in {"int", "str", "float", "number", "dict"} |->
        IF name = "number" THEN "(Number, Decimal)" ELSE name]

json_primitives ==
    [name \in {"number", "integer", "string", "object", "null"} |->
        CASE name = "number" -> "float"
          [] name = "integer" -> "int"
          [] name = "string" -> "str"
          [] name = "object" -> "dict"
          [] name = "null" -> "None"]

\* ------------------------------------------------------ exception classes
IsValueError(e) == e \in {"ValueError", "ValidationError", "ConstraintFailure"}
IsValidationError(e) == e \in {"ValidationError", "ConstraintFailure"}

\* ------------------------------------------------------------- inflection
\* inflection.underscore on the keys in use
underscore(key) ==
    CASE key = "multipleOf" -> "multiple_of"
      [] key = "exclusiveMaximum" -> "exclusive_maximum"
      [] key = "exclusiveMinimum" -> "exclusive_minimum"
      [] key = "allOf" -> "all_of"
      [] key = "anyOf" -> "any_of"
      [] key = "oneOf" -> "one_of"
      [] key = "additionalItems" -> "additional_items"
      [] key = "additionalProperties" -> "additional_properties"
      [] key = "patternProperties" -> "pattern_properties"
      [] key = "additionalEntries" -> "additional_entries"
      [] key = "patternEntries" -> "pattern_entries"
      [] key = "dateTime" -> "date_time"
      [] key = "entryNames" -> "entry_names"
      [] key = "propertyNames" -> "property_names"
      [] OTHER -> key

\* json_inflection: camelize(x.replace("-", "_"), False)
json_inflection(key) ==
    CASE key = "multiple_of" -> "multipleOf"
      [] key = "exclusive_maximum" -> "exclusiveMaximum"
      [] key = "exclusive_minimum" -> "exclusiveMinimum"
      [] key = "all_of" -> "allOf"
      [] key = "any_of" -> "anyOf"
      [] key = "one_of" -> "oneOf"
      [] key = "additional_items" -> "additionalItems"
      [] key = "additional_properties" -> "additionalProperties"
      [] key = "pattern_properties" -> "patternProperties"
      [] key = "additional_entries" -> "additionalEntries"
      [] key = "pattern_entries" -> "patternEntries"
      [] key = "date_time" -> "dateTime"
      [] key = "entry_names" -> "entryNames"
      [] key = "property_names" -> "propertyNames"
      [] OTHER -> key

\* -------------------------------------------------------------- registry
\* The constraints registered by the @register decorators: whether a
\* description template was given, the required and the excluded classes.
Constraint(desc, require, exclude) ==
    [description |-> desc, require |-> require, exclude |-> exclude]

constraints ==
    [name \in {"type", "const", "default", "name", "multiple_of", "maximum",
               "exclusive_maximum", "minimum", "exclusive_minimum", "if",
               "then", "else", "all_of", "any_of", "one_of", "not", "items",
               "additional_items", "required", "entries", "pattern_entries",
               "additional_entries", "dependencies", "entry_names", "format"} |->
        CASE name = "multiple_of" -> Constraint(TRUE, "Number", "")
          [] name = "maximum" -> Constraint(FALSE, "Number", "")
          [] name = "minimum" -> Constraint(FALSE, "Number", "")
          [] name = "exclusive_maximum" -> Constraint(FALSE, "", "")
          [] name = "exclusive_minimum" -> Constraint(FALSE, "", "")
          [] name = "all_of" -> Constraint(TRUE, "Iterable", "")
          [] name = "items" -> Constraint(TRUE, "Iterable", "str")
          [] name = "additional_items" -> Constraint(FALSE, "", "")
          [] name \in {"required", "entries", "pattern_entries",
                       "additional_entries", "dependencies", "entry_names"} ->
                 Constraint(TRUE, "Mapping", "")
          [] name = "format" -> Constraint(TRUE, "str", "")
          [] OTHER -> Constraint(TRUE, "", "")]

\* json_constraints = constraints.clone(include, map): the JSON Schema name
\* of each registered Constraint, and the aliases the map leaves behind
json_constraints ==
    [name \in {"type", "const", "multipleOf", "maximum", "exclusiveMaximum",
               "minimum", "exclusiveMinimum", "if", "then", "else", "allOf",
               "anyOf", "oneOf", "not", "items", "additionalItems",
               "required", "dependencies", "format", "properties",
               "patternProperties", "additionalProperties", "propertyNames"} |->
        CASE name = "properties" -> "entries"
          [] name = "propertyNames" -> "entry_names"
          [] name = "patternProperties" -> "pattern_entries"
          [] name = "additionalProperties" -> "additional_entries"
          [] OTHER -> underscore(name)]

json_aliases ==
    [name \in {"entries", "pattern_entries", "additional_entries",
               "entry_names"} |->
        CASE name = "entries" -> "properties"
          [] name = "entry_names" -> "propertyNames"
          [] name = "pattern_entries" -> "patternProperties"
          [] name = "additional_entries" -> "additionalProperties"]

\* ----------------------------------------------------------- environments
\* An Environment: constraints names its registry ("constraints" or
\* "json_constraints"), inflection its inflection function.
Environment(name, strict) ==
    [name |-> name, strict |-> strict, ignore_formats |-> FALSE,
     ignore_these_formats |-> {}, inflection |-> "underscore",
     constraints |-> "constraints", primitives |-> Primitives]

native == Environment("native", TRUE)

env ==
    [Environment("jsonSchema", FALSE) EXCEPT
        !.inflection = "json_inflection", !.constraints = "json_constraints",
        !.primitives = json_primitives]

\* env.inflection(key)
inflection(e, key) ==
    IF e.inflection = "underscore" THEN underscore(key) ELSE json_inflection(key)

\* Environment.get_constraint(key): ConstraintRegistry.get of the key's
\* native inflection; the result is the registered Constraint under its
\* name in the base registry, "" for None
get_constraint(e, key) ==
    IF e.constraints = "constraints"
    THEN IF underscore(underscore(key)) \in DOMAIN constraints
         THEN underscore(underscore(key)) ELSE ""
    ELSE IF json_inflection(underscore(key)) \in DOMAIN json_constraints
         THEN json_constraints[json_inflection(underscore(key))] ELSE ""

\* ConstraintRegistry.get_alias(name)
get_alias(e, name) ==
    IF e.constraints = "constraints" THEN underscore(name)
    ELSE IF name \in DOMAIN json_aliases THEN json_aliases[name]
    ELSE json_inflection(name)

is_applicable(name, i) ==
    /\ constraints[name].require = "" \/ IsInstance(i, constraints[name].require)
    /\ constraints[name].exclude = "" \/ ~IsInstance(i, constraints[name].exclude)

\* a registry in which every constraint applies to every declared type
is_applicable_type_Any(name, t) == TRUE

is_applicable_type(name, t) ==
    /\ constraints[name].require = "" \/ t = "undef"
          \/ IsSubclass(t, constraints[name].require)
    /\ constraints[name].exclude = "" \/ t = "undef"
          \/ ~IsSubclass(t, constraints[name].exclude)

\* format_registry / get_format(name): the formats that are registered
format_registry == {"date_time"}
get_format(name) == IF underscore(name) \in format_registry THEN underscore(name) ELSE ""

\* ------------------------------------------------------ raw schema values
\* One item of a raw value: the key and the constraint-specific value (n a
\* number, b a boolean, t a type or format name, c a Python value, subs
\* sub-schemas, keys the names that go with them or a list of names).
Item ==
    [key |-> "", n |-> 0, b |-> FALSE, t |-> "", c |-> NoneV, subs |-> <<>>,
     keys |-> <<>>]
TypeC(t) == [Item EXCEPT !.key = "type", !.t = t]
ConstC(c) == [Item EXCEPT !.key = "const", !.c = c]
MultipleOfC(n) == [Item EXCEPT !.key = "multiple_of", !.n = n]
MaximumC(n) == [Item EXCEPT !.key = "maximum", !.n = n]
MinimumC(n) == [Item EXCEPT !.key = "minimum", !.n = n]
ExclusiveMaximumC(b) == [Item EXCEPT !.key = "exclusive_maximum", !.b = b]
AllOfC(subs) == [Item EXCEPT !.key = "all_of", !.subs = subs]
AnyOfC(subs) == [Item EXCEPT !.key = "any_of", !.subs = subs]
OneOfC(subs) == [Item EXCEPT !.key = "one_of", !.subs = subs]
NotC(s) == [Item EXCEPT !.key = "not", !.subs = <<s>>]
IfC(s) == [Item EXCEPT !.key = "if", !.subs = <<s>>]
ThenC(s) == [Item EXCEPT !.key = "then", !.subs = <<s>>]
ElseC(s) == [Item EXCEPT !.key = "else", !.subs = <<s>>]

\* items as a positional list or as one sub-schema (a mapping);
\* additional_items as False (b) or a sub-schema
ItemsC(subs) == [Item EXCEPT !.key = "items", !.subs = subs]
ItemsEachC(s) == [Item EXCEPT !.key = "items", !.t = "mapping", !.subs = <<s>>]
AdditionalItemsC(t, subs) ==
    [Item EXCEPT !.key = "additional_items", !.t = t, !.subs = subs]

\* required: a list of keys; entries and pattern_entries: sub-schemas by key
\* (a pattern is the key it searches for); additional_entries: True or False
\* (t = "bool", b) or a sub-schema; dependencies: a sub-schema by key
RequiredC(keys) == [Item EXCEPT !.key = "required", !.keys = keys]
EntriesC(keys, subs) == [Item EXCEPT !.key = "entries", !.keys = keys, !.subs = subs]
PatternEntriesC(keys, subs) ==
    [Item EXCEPT !.key = "pattern_entries", !.keys = keys, !.subs = subs]
AdditionalEntriesC(t, b, subs) ==
    [Item EXCEPT !.key = "additional_entries", !.t = t, !.b = b, !.subs = subs]
DependenciesC(keys, subs) ==
    [Item EXCEPT !.key = "dependencies", !.keys = keys, !.subs = subs]

\* entry_names: one sub-schema for the keys
EntryNamesC(s) == [Item EXCEPT !.key = "entry_names", !.subs = <<s>>]

FormatC(t) == [Item EXCEPT !.key = "format", !.t = t]
DefaultC(c) == [Item EXCEPT !.key = "default", !.c = c]
BrokenC == [Item EXCEPT !.key = "broken"]

HasKey(value, key) == \E i \in DOMAIN value : value[i].key = key
ItemOf(value, key) == value[CHOOSE i \in DOMAIN value : value[i].key = key]

\* Schema.get(key, default): the first raw key whose inflection is the alias
\* of the key asked for
Has(e, value, key) ==
    \E i \in DOMAIN value : inflection(e, value[i].key) = get_alias(e, key)
get(e, value, key) ==
    value[CHOOSE i \in DOMAIN value :
             /\ inflection(e, value[i].key) = get_alias(e, key)
             /\ \A j \in 1 .. (i - 1) :
                   inflection(e, value[j].key) # get_alias(e, key)]

GetExclusiveMaximum(e, value) ==
    IF Has(e, value, "exclusive_maximum")
    THEN get(e, value, "exclusive_maximum").b ELSE FALSE

GetExclusiveMinimum(e, value) ==
    IF Has(e, value, "exclusive_minimum")
    THEN get(e, value, "exclusive_minimum").b ELSE FALSE

\* ------------------------------------------------------- compiled schemas
\* A Schema object: err is the exception compile raised ("" when it
\* returned), none marks the None that Environment.schema(None) returns,
\* env is its environment, type is the declared type ("undef" for
\* Undefined) and constraints the ordered handler table.
NoneSchema ==
    [err |-> "", none |-> TRUE, env |-> native, strict |-> FALSE,
     value |-> <<>>, type |-> "undef", constraints |-> <<>>]

CompileError(e) == [NoneSchema EXCEPT !.err = e, !.none = FALSE]

\* A compiled handler: the closure's captured variables.  name is the raw
\* key the table files it under, constraint the registered Constraint that
\* compiled it, more the compiled schema of additional_items.
Handler(item, excl, subs) ==
    [name |-> item.key, constraint |-> item.key, wrap |-> FALSE, n |-> item.n,
     excl |-> excl, c |-> item.c, t |-> item.t, b |-> item.b, subs |-> subs,
     keys |-> item.keys, more |-> <<>>]

Compiled(h) == [err |-> "", none |-> FALSE, h |-> h]
CompiledNone == [err |-> "", none |-> TRUE, h |-> Handler(Item, FALSE, <<>>)]
CompilerRaised(e) == [CompiledNone EXCEPT !.err = e]

\* The first exception among the compilations of a list of sub-schemas
FirstErr(subs) ==
    IF \E i \in DOMAIN subs : subs[i].err # ""
    THEN subs[CHOOSE i \in DOMAIN subs :
                 /\ subs[i].err # ""
                 /\ \A j \in 1 .. (i - 1) : subs[j].err = ""].err
    ELSE ""

\* type_constraint: resolve a primitive name, check that it names a type,
\* return the handler and the expected type
type_constraint(e, item) ==
    IF item.t \notin DOMAIN e.primitives \/ ~IsType(e.primitives[item.t])
    THEN [err |-> "ValueError", type |-> "undef",
          h |-> Handler(item, FALSE, <<>>)]
    ELSE [err |-> "", type |-> e.primitives[item.t],
          h |-> [Handler(item, FALSE, <<>>) EXCEPT !.t = e.primitives[item.t]]]

RECURSIVE compile(_, _)
RECURSIVE compile_items(_, _, _, _, _)

\* Environment.schema(value): None stays None, anything else is compiled
env_schema(value, e) == compile(value, e)

\* Schema.get("then"/"else", None) handed to Environment.schema
env_schema_get(value, key, e) ==
    IF Has(e, value, key)
    THEN env_schema(get(e, value, key).subs[1], e)
    ELSE NoneSchema

\* items: the sub-schemas to match and the fill from additional_items
items(e, value, item, subs) ==
    LET additional == IF Has(e, value, "additional_items")
                      THEN get(e, value, "additional_items") ELSE Item
        fill == IF item.t = "mapping" THEN <<subs[1]>>
                ELSE IF additional.t = "schema"
                THEN <<env_schema(additional.subs[1], e)>>
                ELSE <<>>
        policy == IF item.t = "mapping" THEN "schema"
                  ELSE IF ~Has(e, value, "additional_items") THEN "undefined"
                  ELSE additional.t
    IN IF FirstErr(subs \o fill) # "" THEN CompilerRaised(FirstErr(subs \o fill))
       ELSE Compiled([Handler(item, FALSE,
                              IF item.t = "mapping" THEN <<>> ELSE subs)
                         EXCEPT !.t = policy, !.more = fill])

\* additional_entries: the names entries declares, the patterns of
\* pattern_entries, and the policy
additional_entries(e, value, item, subs) ==
    LET names == IF Has(e, value, "entries")
                 THEN get(e, value, "entries").keys ELSE <<>>
        patterns == IF Has(e, value, "pattern_entries")
                    THEN get(e, value, "pattern_entries").keys ELSE <<>>
    IN IF FirstErr(subs) # "" THEN CompilerRaised(FirstErr(subs))
       ELSE Compiled([Handler(item, FALSE, subs) EXCEPT !.keys = names \o patterns])

\* format_constraint: nothing when formats are ignored, NameError for an
\* unknown format in a strict schema, else a handler around fn (which is
\* None, "", for an unknown format)
format_constraint(e, item) ==
    LET value == IF item.t = "datetime" THEN "date_time" ELSE item.t
    IN IF e.ignore_formats THEN CompiledNone
       ELSE IF inflection(e, value) \in e.ignore_these_formats THEN CompiledNone
       ELSE IF get_format(value) = "" /\ e.strict THEN CompilerRaised("NameError")
       ELSE Compiled([Handler(item, FALSE, <<>>) EXCEPT !.t = get_format(value)])

\* constraint(self, v): the compiler functions
Compiler(value, item, e) ==
    LET k == get_constraint(e, item.key)
        subs == [i \in DOMAIN item.subs |-> env_schema(item.subs[i], e)]
        ifsubs == <<env_schema(item.subs[1], e),
                    env_schema_get(value, "then", e),
                    env_schema_get(value, "else", e)>>
    IN CASE k \in {"exclusive_maximum", "exclusive_minimum", "then", "else",
                   "additional_items", "default", "name"} ->
              CompiledNone
         [] k = "maximum" ->
              Compiled(Handler(item, GetExclusiveMaximum(e, value), <<>>))
         [] k = "minimum" ->
              Compiled(Handler(item, GetExclusiveMinimum(e, value), <<>>))
         [] k = "if" ->
              IF FirstErr(ifsubs) # "" THEN CompilerRaised(FirstErr(ifsubs))
              ELSE Compiled(Handler(item, FALSE, ifsubs))
         [] k \in {"all_of", "any_of", "one_of", "not", "entries",
                   "pattern_entries", "dependencies", "entry_names"} ->
              IF FirstErr(subs) # "" THEN CompilerRaised(FirstErr(subs))
              ELSE Compiled(Handler(item, FALSE, subs))
         [] k = "items" -> items(e, value, item, subs)
         [] k = "additional_entries" -> additional_entries(e, value, item, subs)
         [] k = "format" -> format_constraint(e, item)
         [] OTHER -> Compiled(Handler(item, FALSE, <<>>))

\* wrap_applicable_checker
wrap_applicable_checker(h) == [h EXCEPT !.wrap = TRUE]

\* a compile that keeps what the table held
clear_Keep(table) == table

\* self.constraints.clear()
clear(table) == <<>>

\* self.constraints[k] = handler on the OrderedDict: a key already filed
\* keeps its place, a new key goes last
SetHandler(table, h) ==
    IF \E x \in DOMAIN table : table[x].name = h.name
    THEN [x \in DOMAIN table |-> IF table[x].name = h.name THEN h ELSE table[x]]
    ELSE Append(table, h)

\* One turn of the loop: constraint is env.get_constraint(k) and c what
\* constraint(self, v) returned or raised
compile_item(value, e, type, i, acc, constraint, c) ==
    IF value[i].key = "type" THEN compile_items(value, e, type, i + 1, acc)
    ELSE IF constraint = ""
    THEN IF e.strict THEN [err |-> "ConstraintKeyError", constraints |-> acc]
         ELSE compile_items(value, e, type, i + 1, acc)
    ELSE IF ~is_applicable_type(constraint, type) \/ c.err = "ConstraintNotApplicable"
    THEN IF e.strict THEN [err |-> "ConstraintNotApplicable", constraints |-> acc]
         ELSE compile_items(value, e, type, i + 1, acc)
    ELSE IF c.err # "" THEN [err |-> c.err, constraints |-> acc]
    ELSE IF c.none THEN compile_items(value, e, type, i + 1, acc)
    ELSE compile_items(value, e, type, i + 1,
            SetHandler(acc, IF type = "undef"
                            THEN wrap_applicable_checker(
                                     [c.h EXCEPT !.constraint = constraint])
                            ELSE [c.h EXCEPT !.constraint = constraint]))

\* The loop of Schema.compile over self.value.items()
compile_items(value, e, type, i, acc) ==
    IF i > Len(value) THEN [err |-> "", constraints |-> acc]
    ELSE compile_item(value, e, type, i, acc, get_constraint(e, value[i].key),
                      Compiler(value, value[i], e))

\* The Schema object as compile leaves it: tc is what the type constraint
\* returned or raised, rest what the loop over the other keys did
compiled_object(value, e, tc, rest) ==
    [err |-> rest.err, none |-> FALSE, env |-> e, strict |-> e.strict,
     value |-> value, type |-> tc.type, constraints |-> rest.constraints]

\* Schema.compile after the type constraint was compiled first
compile_typed(value, e, table, tc) ==
    compiled_object(value, e, tc,
        IF tc.err # "" THEN [err |-> tc.err, constraints |-> clear(table)]
        ELSE compile_items(value, e, tc.type, 1,
                           IF HasKey(value, "type")
                           THEN SetHandler(clear(table), tc.h)
                           ELSE clear(table)))

\* Schema.compile on a Schema object whose handler table is `table`: the
\* object as compile leaves it, err being the exception it raised
compile_object(value, e, table) ==
    compile_typed(value, e, table,
        IF HasKey(value, "type") THEN type_constraint(e, ItemOf(value, "type"))
        ELSE [err |-> "", type |-> "undef", h |-> Handler(Item, FALSE, <<>>)])

\* What the caller of Environment.schema gets: the compiled Schema, or the
\* exception
Returned(s) == IF s.err # "" THEN CompileError(s.err) ELSE s

\* Schema.compile of a new Schema object
compile(value, e) == Returned(compile_object(value, e, <<>>))

\* --------------------------------------------------------------- outcomes
\* What a call produces: tag "ok" with the returned value, tag "raise" with
\* the exception (class, whether it has a message, path, keys of a dict of
\* sub_errors), or tag "result" for a SchemaValidationResult (errors,
\* success).  ran lists the handlers a schema invoked, in order.
Outcome ==
    [tag |-> "none", val |-> NoneV, exc |-> "", msg |-> FALSE, path |-> <<>>,
     sub |-> {}, ran |-> <<>>, errors |-> <<>>, success |-> FALSE]

Ok(v) == [Outcome EXCEPT !.tag = "ok", !.val = v]
Raise(e, m, p, s) ==
    [Outcome EXCEPT !.tag = "raise", !.exc = e, !.msg = m, !.path = p, !.sub = s]
ConstraintFailure(m, s) == Raise("ConstraintFailure", m, <<>>, s)
Label(name, index) == [name |-> name, index |-> index]

\* A SchemaValidationResult whose success flag ignores the errors
SchemaValidationResult_NoScan(errors, ran) ==
    [Outcome EXCEPT !.tag = "result", !.errors = errors, !.ran = ran,
                    !.success = TRUE]

\* SchemaValidationResult.__init__
SchemaValidationResult(errors, ran) ==
    [Outcome EXCEPT !.tag = "result", !.errors = errors, !.ran = ran,
                    !.success = \A n \in DOMAIN errors : errors[n].exc = ""]

\* value(instance) for a declared type: the calls int(), str(), float()
\* and dict() the type handler makes
TypeCall(t, i) ==
    CASE t = "int" ->
           CASE i.k \in {"int", "bool", "float"} -> Ok(IntV(i.v))
             [] i.k = "str" /\ i.num -> Ok(IntV(i.v))
             [] i.k = "str" /\ ~i.num -> Raise("ValueError", TRUE, <<>>, {})
             [] OTHER -> Raise("TypeError", TRUE, <<>>, {})
      [] t = "float" ->
           CASE i.k \in {"int", "bool", "float"} -> Ok(FloatV(i.v))
             [] i.k = "str" /\ i.num -> Ok(FloatV(i.v))
             [] i.k = "str" /\ ~i.num -> Raise("ValueError", TRUE, <<>>, {})
             [] OTHER -> Raise("TypeError", TRUE, <<>>, {})
      [] t = "str" ->
           CASE i.k = "str" -> Ok(i)
             [] i.k = "int" -> Ok(StrNum(i.v))
             [] i.k = "none" -> Ok(StrNone)
             [] OTHER -> Ok(StrRepr)
      [] t = "dict" ->
           CASE i.k = "dict" -> Ok(i)
             [] i.k = "list" /\ i.items = <<>> -> Ok(DictV(<<>>))
             [] i.k = "str" -> Raise("ValueError", TRUE, <<>>, {})
             [] OTHER -> Raise("TypeError", TRUE, <<>>, {})

\* Schema.build_error: the ConstraintFailure to record or raise, or the
\* AttributeError of None.format when the constraint has no description
build_error(e, name, err) ==
    LET cf == IF err.exc # "ConstraintFailure"
              THEN Raise("ConstraintFailure", err.msg, <<name>>, {})
              ELSE [err EXCEPT !.path = <<name>> \o @]
    IN IF cf.msg THEN cf
       ELSE IF constraints[get_constraint(e, name)].description
       THEN [cf EXCEPT !.msg = TRUE]
       ELSE Raise("AttributeError", TRUE, <<>>, {})

\* ---------------------------------------------------------------- handlers
type_handler(h, i, convert) ==
    IF IsInstance(i, h.t) THEN Ok(i)
    ELSE IF convert THEN TypeCall(h.t, i)
    ELSE Raise("ValidationError", FALSE, <<>>, {})

const_handler(h, i, convert) ==
    IF ~PyEq(i, h.c) /\ ~convert THEN Raise("ValidationError", FALSE, <<>>, {})
    ELSE Ok(h.c)

multiple_of_handler(h, i) ==
    IF i.v % h.n # 0 THEN ConstraintFailure(FALSE, {}) ELSE Ok(i)

\* A maximum handler that compares with < where the code has <=
maximum_handler_Off(h, i, convert) ==
    IF h.excl
    THEN IF i.v < h.n THEN Ok(i) ELSE ConstraintFailure(TRUE, {})
    ELSE IF i.v < h.n THEN Ok(i)
         ELSE IF convert THEN Ok(IntV(h.n))
         ELSE ConstraintFailure(TRUE, {})

maximum_handler(h, i, convert) ==
    IF h.excl
    THEN IF i.v < h.n THEN Ok(i) ELSE ConstraintFailure(TRUE, {})
    ELSE IF i.v <= h.n THEN Ok(i)
         ELSE IF convert THEN Ok(IntV(h.n))
         ELSE ConstraintFailure(TRUE, {})

minimum_handler(h, i, convert) ==
    IF h.excl
    THEN IF i.v > h.n THEN Ok(i) ELSE ConstraintFailure(TRUE, {})
    ELSE IF i.v >= h.n THEN Ok(i)
         ELSE IF convert THEN Ok(IntV(h.n))
         ELSE ConstraintFailure(TRUE, {})

RECURSIVE validate(_, _, _)
RECURSIVE call(_, _, _)

\* An exception leaving sub.validate(...) inside a handler
Propagate(r) == Raise(r.exc, r.msg, r.path, r.sub)

\* sub.validate(instance) for every sub-schema of a combinator, in order;
\* Raised is the first call that raised, if any
ValidateAll(subs, i, p) == [x \in DOMAIN subs |-> validate(subs[x], i, p)]
HasRaised(rs) == \E x \in DOMAIN rs : rs[x].tag = "raise"
Raised(rs) ==
    rs[CHOOSE x \in DOMAIN rs :
          rs[x].tag = "raise" /\ \A y \in 1 .. (x - 1) : rs[y].tag # "raise"]
Failing(rs, name) == {Label(name, x - 1) : x \in {y \in DOMAIN rs : ~rs[y].success}}

\* if_condition's handler after `_if.validate(instance).success` chose the
\* branch: r is what the branch schema returned (or raised) when called
if_converted(branch, r) ==
    IF r.tag = "raise" /\ IsValidationError(r.exc)
    THEN [r EXCEPT !.path = <<branch>> \o @, !.ran = <<>>]
    ELSE [r EXCEPT !.ran = <<>>]

\* ... and r its validation result when convert is off
if_validated(branch, i, r) ==
    IF r.tag = "raise" THEN Propagate(r)
    ELSE IF r.success THEN Ok(i)
    ELSE Raise("ConstraintFailure", TRUE, <<branch>>, {})

if_branch(h, i, convert, p, _if) ==
    LET branch == IF _if.success THEN "then" ELSE "else"
        sub == IF _if.success THEN h.subs[2] ELSE h.subs[3]
    IN IF _if.tag = "raise" THEN Propagate(_if)
       ELSE IF sub.none THEN Ok(i)
       ELSE IF convert THEN if_converted(branch, call(sub, i, p))
       ELSE if_validated(branch, i, validate(sub, i, p))

if_handler(h, i, convert, p) ==
    if_branch(h, i, convert, p, validate(h.subs[1], i, FALSE))

RECURSIVE all_of_convert(_, _, _, _)

\* One turn of all_of's convert loop: r is sub(instance, partial=partial)
all_of_convert_step(subs, x, p, r) ==
    IF r.tag = "ok" THEN all_of_convert(subs, x + 1, r.val, p)
    ELSE [r EXCEPT !.ran = <<>>]

all_of_convert(subs, x, i, p) ==
    IF x > Len(subs) THEN Ok(i)
    ELSE all_of_convert_step(subs, x, p, call(subs[x], i, p))

\* all_of's validation branch over the results rs of the sub-schemas
all_of_validate(i, rs) ==
    IF HasRaised(rs) THEN Propagate(Raised(rs))
    ELSE IF Failing(rs, "allof") # {}
    THEN ConstraintFailure(FALSE, Failing(rs, "allof"))
    ELSE Ok(i)

all_of_handler(h, i, convert, p) ==
    IF convert THEN all_of_convert(h.subs, 1, i, p)
    ELSE all_of_validate(i, ValidateAll(h.subs, i, p))

RECURSIVE any_of_convert(_, _, _, _)

\* One turn of any_of's convert loop: r is sub(instance, partial=partial)
any_of_convert_step(subs, x, i, p, r) ==
    IF r.tag = "ok" THEN Ok(r.val)
    ELSE IF r.exc = "TypeError" \/ IsValueError(r.exc)
    THEN any_of_convert(subs, x + 1, i, p)
    ELSE [r EXCEPT !.ran = <<>>]

any_of_convert(subs, x, i, p) ==
    IF x > Len(subs) THEN Ok(i)
    ELSE any_of_convert_step(subs, x, i, p, call(subs[x], i, p))

\* any_of's validation branch over the results rs of the sub-schemas
any_of_validate(i, rs) ==
    IF HasRaised(rs) THEN Propagate(Raised(rs))
    ELSE IF \A x \in DOMAIN rs : ~rs[x].success
    THEN ConstraintFailure(FALSE, Failing(rs, "allof"))
    ELSE Ok(i)

any_of_handler(h, i, convert, p) ==
    IF convert THEN any_of_convert(h.subs, 1, i, p)
    ELSE any_of_validate(i, ValidateAll(h.subs, i, p))

\* Schema.__eq__ as the dataclass generates it: two distinct Schema objects
\* are equal when their fields are, and two handler tables are equal only
\* when both are empty (each compile makes fresh closures)
SchemaEq(a, b) ==
    /\ {a.value[x] : x \in DOMAIN a.value} = {b.value[x] : x \in DOMAIN b.value}
    /\ a.strict = b.strict
    /\ a.type = b.type
    /\ a.constraints = <<>> /\ b.constraints = <<>>

\* The set `success` of one_of: which positions success.add() keeps.  Two
\* unnamed schemas fall together when they are equal and Schema.__hash__
\* (hashish of the raw value, which hashes the temporary values() view by
\* its id) gives both the same number.
SuccessSet(subs, matching) ==
    LET same(x, y) == x = y \/ (ids_collide /\ SchemaEq(subs[x], subs[y]))
    IN {x \in matching : \A y \in matching : same(x, y) => x <= y}

\* one_of's handler over the results rs of the sub-schemas
one_of_select(h, i, convert, p, rs) ==
    LET success == SuccessSet(h.subs, {x \in DOMAIN rs : rs[x].success})
        only == CHOOSE x \in success : TRUE
    IN IF HasRaised(rs) THEN Propagate(Raised(rs))
       ELSE IF Cardinality(success) # 1
       THEN ConstraintFailure(FALSE, Failing(rs, "oneof"))
       ELSE IF convert THEN [call(h.subs[only], i, p) EXCEPT !.ran = <<>>]
       ELSE Ok(i)

one_of_handler(h, i, convert, p) ==
    one_of_select(h, i, convert, p, ValidateAll(h.subs, i, p))

\* not_'s handler over the result r of the sub-schema
not_validated(i, r) ==
    IF r.tag = "raise" THEN Propagate(r)
    ELSE IF r.success THEN ConstraintFailure(FALSE, {})
    ELSE Ok(i)

not_handler(h, i, p) == not_validated(i, validate(h.subs[1], i, p))

\* ------------------------------------------------- containers.py handlers
\* What iterating an instance yields: the elements of a list, the keys of a
\* dict (as strings)
Iterate(i) ==
    IF i.k = "list" THEN i.items
    ELSE [x \in DOMAIN i.entries |->
             [k |-> "str", v |-> IF i.entries[x].key = "a" THEN 0 ELSE 4,
              num |-> FALSE]]

RECURSIVE schema_matches(_, _, _, _, _, _)

\* One turn of schema_matches with a sub-schema s at hand: r is s(v) or
\* s.validate(v)
schema_matches_step(h, elems, x, convert, vals, failing, r) ==
    IF r.tag = "raise" THEN Raise(r.exc, r.msg, r.path, r.sub)
    ELSE IF convert
    THEN schema_matches(h, elems, x + 1, convert, Append(vals, r.val), failing)
    ELSE schema_matches(h, elems, x + 1, convert, vals,
                        IF r.success THEN failing
                        ELSE failing \cup {Label("items", x - 1)})

\* schema_matches(instance, schemas, fill, convert) from position x on: the
\* list of converted values, or the positions whose validation failed.
\* When the instance is the shorter side, the fill (False, or the Schema
\* compiled from additional_items) stands in for the element.
schema_matches(h, elems, x, convert, vals, failing) ==
    IF x > Len(elems) /\ x > Len(h.subs)
    THEN [Ok(ListV(vals)) EXCEPT !.sub = failing]
    ELSE IF x > Len(h.subs) /\ h.t = "false" THEN ConstraintFailure(TRUE, {})
    ELSE IF x > Len(elems) /\ h.t = "undefined" THEN ConstraintFailure(TRUE, {})
    ELSE IF x > Len(h.subs) /\ h.t = "undefined"
    THEN IF convert
         THEN schema_matches(h, elems, x + 1, convert,
                             Append(vals, elems[x]), failing)
         ELSE [Ok(ListV(vals)) EXCEPT !.sub = failing]
    ELSE schema_matches_step(h, elems, x, convert, vals, failing,
            IF convert
            THEN call(IF x <= Len(h.subs) THEN h.subs[x] ELSE h.more[1],
                      IF x <= Len(elems) THEN elems[x]
                      ELSE IF h.t = "false" THEN FalseV ELSE ObjectV, FALSE)
            ELSE validate(IF x <= Len(h.subs) THEN h.subs[x] ELSE h.more[1],
                          IF x <= Len(elems) THEN elems[x]
                          ELSE IF h.t = "false" THEN FalseV ELSE ObjectV,
                          FALSE))

\* items' handler over what schema_matches returned or raised
items_results(convert, r) ==
    IF r.tag = "raise" THEN r
    ELSE IF convert THEN Ok(r.val)
    ELSE IF r.sub # {} THEN ConstraintFailure(TRUE, r.sub)
    ELSE Ok(NoneV)

items_handler(h, i, convert) ==
    items_results(convert, schema_matches(h, Iterate(i), 1, convert, <<>>, {}))

\* ------------------------------------------------------- maps.py handlers
\* required's handler: `if partial: return instance`, then value.sort()
\* (see value_sort for what it does to the schema) and the check
required_handler(h, i, p) ==
    IF p THEN Ok(i)
    ELSE IF \E x \in DOMAIN h.keys : ~DictHas(i, h.keys[x])
    THEN ConstraintFailure(TRUE, {})
    ELSE Ok(i)

\* What the generator of a handler yields for an instance: (name,
\* sub-schema, value) triples; policy is "schema", "true" or "false"
Yield(name, policy, s, value) ==
    [name |-> name, policy |-> policy, s |-> s, value |-> value]

Select(seq, keep) ==
    LET F[x \in 0 .. Len(seq)] ==
            IF x = 0 THEN <<>>
            ELSE IF keep[x] THEN Append(F[x - 1], seq[x]) ELSE F[x - 1]
    IN F[Len(seq)]

\* list.sort() on a list of keys, which are "a" or "b"
sort(keys) ==
    Select(keys, [x \in DOMAIN keys |-> keys[x] = "a"])
        \o Select(keys, [x \in DOMAIN keys |-> keys[x] # "a"])

\* entries: the declared names the instance has, in declared order;
\* pattern_entries: the instance's names a pattern matches, in the
\* instance's order
entries_generator(h, i) ==
    Select([x \in DOMAIN h.keys |->
               Yield(h.keys[x], "schema", h.subs[x],
                     IF DictHas(i, h.keys[x]) THEN DictGet(i, h.keys[x])
                     ELSE NoneV)],
           [x \in DOMAIN h.keys |-> DictHas(i, h.keys[x])])

\* any_matches(name, patterns): a pattern is a key, and regex.search finds
\* it in the name it spells
any_matches(name, patterns) == \E x \in DOMAIN patterns : patterns[x] = name

pattern_entries_generator(h, i) ==
    Select([x \in DOMAIN i.entries |->
               Yield(i.entries[x].key, "schema",
                     IF any_matches(i.entries[x].key, h.keys)
                     THEN h.subs[CHOOSE y \in DOMAIN h.keys :
                                    h.keys[y] = i.entries[x].key]
                     ELSE NoneSchema,
                     i.entries[x].val)],
           [x \in DOMAIN i.entries |-> any_matches(i.entries[x].key, h.keys)])

\* additional_entries: the instance's names that are neither declared nor
\* matched by a pattern (h.keys holds both), with the policy
additional_entries_generator(h, i) ==
    Select([x \in DOMAIN i.entries |->
               Yield(i.entries[x].key,
                     IF h.t = "schema" THEN "schema"
                     ELSE IF h.b THEN "true" ELSE "false",
                     IF h.t = "schema" THEN h.subs[1] ELSE NoneSchema,
                     i.entries[x].val)],
           [x \in DOMAIN i.entries |-> ~any_matches(i.entries[x].key, h.keys)])

\* The generator entry_handler was given
generator(h, i) ==
    CASE h.constraint = "entries" -> entries_generator(h, i)
      [] h.constraint = "pattern_entries" -> pattern_entries_generator(h, i)
      [] h.constraint = "additional_entries" -> additional_entries_generator(h, i)

\* "{" + name + "}"
Braced(name) == IF name = "a" THEN "{a}" ELSE "{b}"

RECURSIVE entry_convert(_, _, _)

\* One turn of entry_handler's convert loop on a sub-schema: r is
\* sub_schema(value)
entry_convert_step(ys, x, i, r) ==
    IF r.tag = "ok" THEN entry_convert(ys, x + 1, DictSet(i, ys[x].name, r.val))
    ELSE IF IsValidationError(r.exc)
    THEN Raise(r.exc, r.msg, <<Braced(ys[x].name)>> \o r.path, r.sub)
    ELSE Raise(r.exc, r.msg, r.path, r.sub)

\* entry_handler, convert: False raises, True is called as if it were a
\* sub-schema (TypeError), a sub-schema converts the value in place
entry_convert(ys, x, i) ==
    IF x > Len(ys) THEN Ok(i)
    ELSE IF ys[x].policy = "false" THEN ConstraintFailure(TRUE, {})
    ELSE IF ys[x].policy = "true" THEN Raise("TypeError", TRUE, <<>>, {})
    ELSE entry_convert_step(ys, x, i, call(ys[x].s, ys[x].value, FALSE))

RECURSIVE entry_validate(_, _, _, _)

\* One turn of entry_handler's validation loop on a sub-schema: r is
\* sub_schema.validate(value)
entry_validate_step(ys, x, i, errors, r) ==
    IF r.tag = "raise" THEN Raise(r.exc, r.msg, r.path, r.sub)
    ELSE entry_validate(ys, x + 1, i,
                        IF r.success THEN errors
                        ELSE errors \cup {Label(ys[x].name, 0)})

\* entry_handler, validate: False raises, True is skipped, the failures of
\* the sub-schemas are collected by name
entry_validate(ys, x, i, errors) ==
    IF x > Len(ys)
    THEN IF errors # {} THEN ConstraintFailure(TRUE, errors) ELSE Ok(i)
    ELSE IF ys[x].policy = "false" THEN ConstraintFailure(TRUE, {})
    ELSE IF ys[x].policy = "true" THEN entry_validate(ys, x + 1, i, errors)
    ELSE entry_validate_step(ys, x, i, errors,
                             validate(ys[x].s, ys[x].value, FALSE))

entry_handler(ys, i, convert) ==
    IF convert THEN entry_convert(ys, 1, i) ELSE entry_validate(ys, 1, i, {})

RECURSIVE dependencies_handler(_, _, _, _)

\* One turn of the loop over dependant_schemas: r is schema.validate(instance)
\* or schema(instance); the except clause of the convert branch reads the
\* undefined name `name`
dependencies_step(h, x, i, convert, r) ==
    IF convert
    THEN IF r.tag = "ok" THEN dependencies_handler(h, x + 1, r.val, convert)
         ELSE IF IsValidationError(r.exc) THEN Raise("NameError", TRUE, <<>>, {})
         ELSE Raise(r.exc, r.msg, r.path, r.sub)
    ELSE IF r.tag = "raise" THEN Raise(r.exc, r.msg, r.path, r.sub)
         ELSE IF ~r.success THEN ConstraintFailure(TRUE, {})
         ELSE dependencies_handler(h, x + 1, i, convert)

\* dependencies' handler from the x-th dependant schema on
dependencies_handler(h, x, i, convert) ==
    IF x > Len(h.keys) THEN Ok(i)
    ELSE IF ~DictHas(i, h.keys[x]) THEN dependencies_handler(h, x + 1, i, convert)
    ELSE dependencies_step(h, x, i, convert,
                           IF convert THEN call(h.subs[x], i, FALSE)
                           ELSE validate(h.subs[x], i, FALSE))

\* ---------------------------------------------------- formats.py handlers
\* The registered format functions
date_time(i) == i = StrDateTime

\* format_constraint's handler: fn is None ("") for an unknown format
format_handler(h, i) ==
    IF h.t = "" THEN Raise("TypeError", TRUE, <<>>, {})
    ELSE IF ~date_time(i) THEN ConstraintFailure(TRUE, {})
    ELSE Ok(i)

\* entry_names' handler over the results rs of name_schema.validate(key) for
\* the keys in order: the first key that raises or fails ends it; when none
\* does, the handler falls off its end and returns None
entry_names_checked(rs) ==
    IF \A x \in DOMAIN rs : rs[x].tag = "result" /\ rs[x].success THEN Ok(NoneV)
    ELSE LET r == rs[CHOOSE x \in DOMAIN rs :
                       /\ ~(rs[x].tag = "result" /\ rs[x].success)
                       /\ \A y \in 1 .. (x - 1) :
                             rs[y].tag = "result" /\ rs[y].success]
         IN IF r.tag = "raise" THEN Propagate(r) ELSE ConstraintFailure(FALSE, {})

entry_names_handler(h, i) ==
    entry_names_checked([x \in DOMAIN i.entries |->
                            validate(h.subs[1], Iterate(i)[x], FALSE)])

\* c(instance, convert=..., partial=...): the wrapper of
\* wrap_applicable_checker, then the handler the compiler returned
Handle(h, i, convert, p) ==
    IF h.wrap /\ ~is_applicable(h.constraint, i)
    THEN Raise("ConstraintNotApplicable", FALSE, <<>>, {})
    ELSE CASE h.constraint = "type" -> type_handler(h, i, convert)
           [] h.constraint = "const" -> const_handler(h, i, convert)
           [] h.constraint = "multiple_of" -> multiple_of_handler(h, i)
           [] h.constraint = "maximum" -> maximum_handler(h, i, convert)
           [] h.constraint = "minimum" -> minimum_handler(h, i, convert)
           [] h.constraint = "if" -> if_handler(h, i, convert, p)
           [] h.constraint = "all_of" -> all_of_handler(h, i, convert, p)
           [] h.constraint = "any_of" -> any_of_handler(h, i, convert, p)
           [] h.constraint = "one_of" -> one_of_handler(h, i, convert, p)
           [] h.constraint = "not" -> not_handler(h, i, p)
           [] h.constraint = "items" -> items_handler(h, i, convert)
           [] h.constraint = "required" -> required_handler(h, i, p)
           [] h.constraint \in {"entries", "pattern_entries",
                                "additional_entries"} ->
                  entry_handler(generator(h, i), i, convert)
           [] h.constraint = "dependencies" ->
                  dependencies_handler(h, 1, i, convert)
           [] h.constraint = "entry_names" -> entry_names_handler(h, i)
           [] h.constraint = "format" -> format_handler(h, i)

\* ------------------------------------------------ Schema.validate / convert
RECURSIVE validate_loop(_, _, _, _, _, _)

\* One turn of the loop of Schema.validate: r is what the handler h returned
\* or raised, ran2 the handlers invoked so far
validate_step(s, i, p, x, results, ran2, h, r) ==
    LET err == build_error(s.env, h.name, r)
        recorded == (h.name :> err) @@ results
        raised(e) == [Propagate(e) EXCEPT !.ran = ran2, !.errors = results]
    IN IF r.tag = "ok" THEN validate_loop(s, i, p, x + 1, results, ran2)
       ELSE IF r.exc = "ConstraintNotApplicable"
       THEN IF ~s.strict THEN validate_loop(s, i, p, x + 1, results, ran2)
            ELSE IF err.exc = "AttributeError" THEN raised(err)
            ELSE validate_loop(s, i, p, x + 1, recorded, ran2)
       ELSE IF IsValueError(r.exc)
       THEN IF err.exc = "AttributeError" THEN raised(err)
            ELSE IF h.name = "type"
            THEN SchemaValidationResult(recorded, ran2)
            ELSE validate_loop(s, i, p, x + 1, recorded, ran2)
       ELSE raised(r)

validate_loop(s, i, p, x, results, ran) ==
    IF x > Len(s.constraints) THEN SchemaValidationResult(results, ran)
    ELSE validate_step(s, i, p, x, results, Append(ran, s.constraints[x].name),
                       s.constraints[x], Handle(s.constraints[x], i, FALSE, p))

\* Schema.validate(instance, partial)
validate(s, i, p) == validate_loop(s, i, p, 1, <<>>, <<>>)

RECURSIVE call_loop(_, _, _, _, _)

\* One turn of the loop of Schema.__call__: r is what the handler h returned
\* or raised
call_step(s, i, p, x, ran2, h, r) ==
    IF r.tag = "ok" THEN call_loop(s, r.val, p, x + 1, ran2)
    ELSE IF r.exc = "ConstraintNotApplicable"
    THEN IF s.strict
         THEN [Raise("UnboundLocalError", TRUE, <<>>, {}) EXCEPT !.ran = ran2]
         ELSE call_loop(s, i, p, x + 1, ran2)
    ELSE IF IsValueError(r.exc) \/ r.exc = "AssertionError"
    THEN [build_error(s.env, h.name, r) EXCEPT !.ran = ran2]
    ELSE [r EXCEPT !.ran = ran2]

call_loop(s, i, p, x, ran) ==
    IF x > Len(s.constraints) THEN [Ok(i) EXCEPT !.ran = ran]
    ELSE call_step(s, i, p, x, Append(ran, s.constraints[x].name),
                   s.constraints[x], Handle(s.constraints[x], i, TRUE, p))

\* Schema.__call__(instance, partial): convert
call(s, i, p) == call_loop(s, i, p, 1, <<>>)


\* ------------------------------------------------- effects on shared objects
\* Whether the handler of `required` at position x of the table, handed the
\* instance i, gets past `if partial` and the applicability wrapper to
\* value.sort()
required_sorts(s, i, p, x) ==
    /\ s.constraints[x].constraint = "required"
    /\ ~p
    /\ s.constraints[x].wrap => is_applicable("required", i)

\* The positions of the table whose handler sorted its list during a
\* validate that invoked the handlers named in ran
validate_sorts(s, i, p, ran) ==
    {x \in DOMAIN s.constraints :
        /\ \E y \in DOMAIN ran : ran[y] = s.constraints[x].name
        /\ required_sorts(s, i, p, x)}

\* The Schema object after validate (or convert): value.sort() in required's
\* handler sorts the list that is both the raw value's and the closure's, at
\* the positions sorts of the table.  The lists of sub-schemas are left as
\* they are (sorting a list of fewer than two keys changes nothing).
value_sort(s, sorts) ==
    [s EXCEPT
        !.value = [x \in DOMAIN @ |->
            IF \E y \in sorts : s.constraints[y].name = @[x].key
            THEN [@[x] EXCEPT !.keys = sort(@)] ELSE @[x]],
        !.constraints = [y \in DOMAIN @ |->
            IF y \in sorts THEN [@[y] EXCEPT !.keys = sort(@)] ELSE @[y]]]

RECURSIVE in_place(_, _, _)

\* `instance[name] = sub_schema(value)`: r is sub_schema(value)
in_place_step(ys, x, i, r) ==
    IF r.tag = "ok" THEN in_place(ys, x + 1, DictSet(i, ys[x].name, r.val)) ELSE i

\* The mapping entry_handler's convert loop was given, as the loop leaves
\* it when it returns or raises
in_place(ys, x, i) ==
    IF x > Len(ys) THEN i
    ELSE IF ys[x].policy # "schema" THEN i
    ELSE in_place_step(ys, x, i, call(ys[x].s, ys[x].value, FALSE))

\* A handler that returns the object it was given
returns_instance(h, i) ==
    \/ h.constraint \in {"required", "entries", "pattern_entries",
                         "additional_entries", "dependencies"}
    \/ h.constraint = "type" /\ IsInstance(i, h.t)

\* dependencies' convert branch, `instance = schema(instance)`: the mapping
\* as the dependant schemas that converted it left it
dependencies_left(h, i) ==
    LET F[x \in 0 .. Len(h.keys)] ==
            IF x = 0 THEN [obj |-> i, on |-> TRUE]
            ELSE IF ~F[x - 1].on \/ ~DictHas(F[x - 1].obj, h.keys[x]) THEN F[x - 1]
            ELSE LET r == call(h.subs[x], F[x - 1].obj, FALSE)
                 IN IF r.tag = "ok" THEN [obj |-> r.val, on |-> TRUE]
                    ELSE [obj |-> F[x - 1].obj, on |-> FALSE]
    IN F[Len(h.keys)].obj

RECURSIVE passed(_, _, _, _, _, _, _)

\* What Schema.__call__ leaves behind: obj the object the caller passed,
\* sorts the positions of the table whose handler sorted its list
Left(obj, sorts) == [obj |-> obj, sorts |-> sorts]

\* One turn of Schema.__call__ seen from the caller's object obj: cur is
\* what the x-th handler h receives, same whether cur is that object, r what
\* h returned or raised, left the object as h left it
passed_step(s, p, x, cur, same, obj, sorts, r, left) ==
    IF r.tag = "ok"
    THEN passed(s, p, x + 1, r.val, same /\ returns_instance(s.constraints[x], cur),
                left, sorts)
    ELSE IF r.exc = "ConstraintNotApplicable"
    THEN IF s.strict THEN Left(obj, sorts) ELSE passed(s, p, x + 1, cur, same, obj, sorts)
    ELSE Left(left, sorts)

\* The object the caller passed to Schema.__call__, after the call: the
\* entry handlers assign into it, and dependencies hands it to sub-schemas
\* that do
passed(s, p, x, cur, same, obj, sorts) ==
    IF x > Len(s.constraints) THEN Left(obj, sorts)
    ELSE passed_step(s, p, x, cur, same, obj,
             IF required_sorts(s, cur, p, x) THEN sorts \cup {x} ELSE sorts,
             Handle(s.constraints[x], cur, TRUE, p),
             IF ~same \/ (s.constraints[x].wrap
                            /\ ~is_applicable(s.constraints[x].constraint, cur))
             THEN obj
             ELSE IF s.constraints[x].constraint
                        \in {"entries", "pattern_entries", "additional_entries"}
             THEN in_place(generator(s.constraints[x], cur), 1, cur)
             ELSE IF s.constraints[x].constraint = "dependencies"
             THEN dependencies_left(s.constraints[x], cur)
             ELSE obj)
\* ------------------------------------------------------- schemas under test
DistinctKeys(v) == \A x, y \in DOMAIN v : x # y => v[x].key # v[y].key

LeafItems ==
    {TypeC("int"), TypeC("str"), MultipleOfC(2), ConstC(IntV(1)), ConstC(StrA)}
        \cup {MaximumC(n) : n \in Limits} \cup {MinimumC(n) : n \in Limits}
        \cup {ExclusiveMaximumC(b) : b \in BOOLEAN}

LeafSchemas ==
    {v \in UNION {[1 .. n -> LeafItems] : n \in 0 .. MaxKeys} : DistinctKeys(v)}

SubSchemas ==
    {<<>>, <<TypeC("int")>>, <<TypeC("str")>>, <<MultipleOfC(2)>>,
     <<ConstC(StrA)>>, <<TypeC("int"), MultipleOfC(2)>>,
     <<TypeC("int"), MaximumC(MaxLimit)>>}
        \cup {<<MaximumC(n)>> : n \in Limits}

SubLists == UNION {[1 .. n -> SubSchemas] : n \in 1 .. MaxSubs}

CombinatorSchemas ==
    {<<AllOfC(l)>> : l \in SubLists} \cup {<<AnyOfC(l)>> : l \in SubLists}
        \cup {<<OneOfC(l)>> : l \in SubLists} \cup {<<NotC(s)>> : s \in SubSchemas}
        \cup {<<TypeC(t), AllOfC(<<s>>)>> : t \in {"int", "str"}, s \in SubSchemas}

Branches == {<<MultipleOfC(2)>>, <<MaximumC(1)>>, <<TypeC("int")>>, <<ConstC(StrA)>>}

IfSchemas ==
    {<<IfC(c)>> \o t \o e :
        c \in SubSchemas,
        t \in {<<>>} \cup {<<ThenC(b)>> : b \in Branches},
        e \in {<<>>} \cup {<<ElseC(b)>> : b \in Branches}}

Schemas == LeafSchemas \cup CombinatorSchemas \cup IfSchemas

\* ------------------------------------------- containers and maps under test
ElemSubs == {<<>>, <<TypeC("int")>>, <<ConstC(IntV(1))>>, <<RequiredC(<<"a">>)>>}

\* Lists of up to MaxItems elements, dicts over the keys "a" and "b" in
\* either order, a few nested containers and two scalars
ContainerInstances ==
    LET Elems == {IntV(1), IntV(2), StrA}
        Keys == {"a", "b"}
        Lists == {ListV(xs) :
                     xs \in UNION {[1 .. n -> Elems] : n \in 0 .. MaxItems}}
        Dicts ==
            {DictV(<<>>)}
                \cup {DictV(<<Entry(k, v)>>) : k \in Keys, v \in Elems}
                \cup {DictV(<<Entry(kl[1], v), Entry(kl[2], w)>>) :
                         kl \in {x \in Keys \X Keys : x[1] # x[2]},
                         v \in Elems, w \in Elems}
        Nested ==
            {DictV(<<Entry("a", ListV(<<StrA>>))>>),
             DictV(<<Entry("a", DictV(<<Entry("b", StrA)>>))>>),
             ListV(<<ListV(<<StrA>>)>>), ListV(<<DictV(<<>>)>>)}
    IN Lists \cup Dicts \cup Nested \cup {IntV(1), StrA}

\* items (positional, with each additional_items policy, and as one
\* sub-schema), required, entries / pattern_entries / additional_entries,
\* dependencies and entry_names
ContainerSchemas ==
    LET ElemLists == UNION {[1 .. n -> ElemSubs] : n \in 1 .. MaxSubs}
        AdditionalItems ==
            {<<>>, <<AdditionalItemsC("false", <<>>)>>}
                \cup {<<AdditionalItemsC("schema", <<s>>)>> : s \in ElemSubs}
        ItemsSchemas ==
            {<<ItemsC(l)>> \o a : l \in ElemLists, a \in AdditionalItems}
                \cup {<<ItemsEachC(s)>> : s \in ElemSubs}
                \cup {<<ItemsC(<<<<ItemsC(<<<<TypeC("int")>>>>)>>>>)>>}
        KeyLists == {<<>>, <<"a">>, <<"a", "b">>, <<"b", "a">>}
        RequiredSchemas ==
            {<<RequiredC(ks)>> : ks \in KeyLists}
                \cup {<<TypeC("dict"), RequiredC(ks)>> : ks \in KeyLists}
        AdditionalEntries ==
            {<<AdditionalEntriesC("bool", b, <<>>)>> : b \in BOOLEAN}
                \cup {<<AdditionalEntriesC("schema", FALSE, <<s>>)>> :
                         s \in ElemSubs}
        EntriesSchemas ==
            {<<EntriesC(<<"a">>, <<s>>)>> \o a :
                s \in ElemSubs, a \in {<<>>} \cup AdditionalEntries}
                \cup {<<PatternEntriesC(<<"b">>, <<s>>)>> \o a :
                         s \in ElemSubs, a \in {<<>>} \cup AdditionalEntries}
                \cup {<<EntriesC(<<"a", "b">>, <<s, t>>)>> :
                         s \in ElemSubs, t \in ElemSubs}
                \cup AdditionalEntries
                \cup {<<EntriesC(<<"a">>,
                         <<<<EntriesC(<<"b">>, <<<<TypeC("int")>>>>)>>>>)>>,
                      <<EntriesC(<<"a">>, <<<<ItemsC(<<<<TypeC("int")>>>>)>>>>)>>}
        DependenciesSchemas ==
            {<<DependenciesC(<<"a">>, <<d>>)>> :
                d \in {<<>>, <<RequiredC(<<"b">>)>>,
                       <<EntriesC(<<"b">>, <<<<TypeC("int")>>>>)>>}}
        EntryNamesSchemas ==
            {<<EntryNamesC(s)>> : s \in {<<>>, <<TypeC("str")>>, <<TypeC("int")>>}}
    IN ItemsSchemas \cup RequiredSchemas \cup EntriesSchemas
           \cup DependenciesSchemas \cup EntryNamesSchemas

\* ------------------------------------------------ compilation under test
\* type names (known, unknown, and registered with something that is not a
\* type), formats (registered or not), a constraint of numbers, one of
\* maps, two metadata keys and an unregistered key
CompileItems ==
    {TypeC(t) : t \in {"int", "str", "number", "null", "wrong"}}
        \cup {FormatC(f) : f \in {"date_time", "nope"}}
        \cup {MaximumC(1), ExclusiveMaximumC(TRUE), RequiredC(<<"a">>),
              DefaultC(IntV(1)), BrokenC}

CompileSchemas ==
    {v \in UNION {[1 .. n -> CompileItems] : n \in 0 .. MaxKeys} : DistinctKeys(v)}

CompileInstances == {IntV(1), IntV(2), StrA, StrDateTime}

\* --------------------------------------------- an environment under test
\* Named schemas: raw values that compile, one with a type that is no
\* primitive yet ("integer"), one with an unknown key
NamedSchemas ==
    {<<>>, <<TypeC("int")>>, <<TypeC("integer")>>, <<MaximumC(1)>>, <<BrokenC>>}
SchemaNames == {"a", "b"}
PrimitiveNames == {"integer", "int"}
CompilerNames == {"any_of", "anyOf", "pattern"}
Compilers == {1, 2}

\* ------------------------------------------------- a document of schemas
\* Raw mappings in a document, and the calls the interpreter's stack holds
MaxNodes == 3
MaxDepth == 8

\* ------------------------------------------------ a schema two threads use
\* Raw values the writer gives the schema, instances the reader passes, and
\* the recompilations in one run
ThreadSchemas ==
    {<<TypeC("int")>>, <<TypeC("int"), MaximumC(1)>>, <<MaximumC(1), MultipleOfC(2)>>,
     <<MaximumC(1), BrokenC>>}
ThreadInstances == {IntV(0), IntV(3), StrA}
MaxCompiles == 2

\* ------------------------------------------------------------ state machine
\* No environment cache, threads or nested compilation in play
NoEnvironment == environment = native /\ schemas = <<>> /\ registry = <<>>
NoThreads == writer = 0 /\ reader = 0
NoCycle == stack = <<>> /\ nodes = <<>>

\* Environment.schema(value): a Schema is constructed and compiled
Init ==
    /\ \E v \in Schemas, strict \in BOOLEAN : schema = env_schema(v, Environment("native", strict))
    /\ ids_collide \in BOOLEAN
    /\ op = "idle"
    /\ instance = NoneV
    /\ partial = FALSE
    /\ result = Outcome
    /\ argument = NoneV
    /\ NoEnvironment /\ NoThreads /\ NoCycle

\* schema.validate(i, partial=p); required's handler sorts its list of keys
Validate(i, p) ==
    /\ op = "idle"
    /\ schema.err = ""
    /\ op' = "validate"
    /\ instance' = i
    /\ partial' = p
    /\ result' = validate(schema, i, p)
    /\ schema' = value_sort(schema, validate_sorts(schema, i, p, result'.ran))
    /\ argument' = i
    /\ UNCHANGED <<ids_collide, env_vars, thread_vars, cycle_vars>>

\* What schema(i) does to the objects it shares with its caller
Effects(left) ==
    /\ schema' = value_sort(schema, left.sorts)
    /\ argument' = left.obj

\* schema(i, partial=p); the entry handlers assign into the mapping they
\* are given
Call(i, p) ==
    /\ op = "idle"
    /\ schema.err = ""
    /\ op' = "convert"
    /\ instance' = i
    /\ partial' = p
    /\ result' = call(schema, i, p)
    /\ Effects(passed(schema, p, 1, i, TRUE, i, {}))
    /\ UNCHANGED <<ids_collide, env_vars, thread_vars, cycle_vars>>

\* The caller has looked at what the call returned or raised
Return ==
    /\ op # "idle"
    /\ stack = <<>>
    /\ op' = "idle"
    /\ instance' = NoneV
    /\ partial' = FALSE
    /\ result' = Outcome
    /\ argument' = NoneV
    /\ UNCHANGED <<schema, ids_collide, env_vars, thread_vars, cycle_vars>>

Next ==
    \/ \E i \in Instances, p \in BOOLEAN : Validate(i, p)
    \/ \E i \in Instances, p \in BOOLEAN : Call(i, p)
    \/ Return

Spec == Init /\ [][Next]_vars

\* The same operations on schemas of containers and maps
InitContainers ==
    /\ \E v \in ContainerSchemas, strict \in BOOLEAN :
          schema = env_schema(v, Environment("native", strict))
    /\ ids_collide = FALSE
    /\ op = "idle"
    /\ instance = NoneV
    /\ partial = FALSE
    /\ result = Outcome
    /\ argument = NoneV
    /\ NoEnvironment /\ NoThreads /\ NoCycle

NextContainers ==
    \/ \E i \in ContainerInstances, p \in BOOLEAN : Validate(i, p)
    \/ \E i \in ContainerInstances, p \in BOOLEAN : Call(i, p)
    \/ Return

SpecContainers == InitContainers /\ [][NextContainers]_vars

\* ----------------------------------------------- compiling and recompiling
\* Environment.schema(value) in a built-in environment or in a lenient
\* environment of the native dialect; the Schema object is
\* registered in env.schemas before it is compiled, so it exists (with the
\* table compile left) also when compile raised
InitCompile ==
    /\ \E v \in CompileSchemas, e \in {native, Environment("lenient", FALSE), env} :
          schema = compile_object(v, e, <<>>)
    /\ ids_collide = FALSE
    /\ op = "idle"
    /\ instance = NoneV
    /\ partial = FALSE
    /\ result = Outcome
    /\ argument = NoneV
    /\ NoEnvironment /\ NoThreads /\ NoCycle

\* s.compile() on the Schema object with raw value v in environment e
Compile(v, e) ==
    /\ schema' = compile_object(v, e, schema.constraints)
    /\ op' = "compile"
    /\ result' = IF schema'.err # "" THEN Raise(schema'.err, TRUE, <<>>, {})
                 ELSE Ok(NoneV)
    /\ UNCHANGED <<ids_collide, instance, partial, argument, env_vars,
                    thread_vars, cycle_vars>>

\* s.value[key] = ...; s.compile(): a key of the dict keeps its place, a new
\* key goes last
SetValue(item) ==
    /\ op = "idle"
    /\ HasKey(schema.value, item.key) \/ Len(schema.value) <= MaxKeys
    /\ Compile(IF HasKey(schema.value, item.key)
               THEN [x \in DOMAIN schema.value |->
                        IF schema.value[x].key = item.key THEN item
                        ELSE schema.value[x]]
               ELSE Append(schema.value, item),
               schema.env)

\* s.value.pop(key); s.compile()
PopValue(key) ==
    /\ op = "idle"
    /\ HasKey(schema.value, key)
    /\ Compile(Select(schema.value,
                      [x \in DOMAIN schema.value |-> schema.value[x].key # key]),
               schema.env)

\* env.ignore_formats = b; s.compile()
SetIgnoreFormats(b) ==
    /\ op = "idle"
    /\ Compile(schema.value, [schema.env EXCEPT !.ignore_formats = b])

\* env.ignore_these_formats = names; s.compile()
SetIgnoreTheseFormats(names) ==
    /\ op = "idle"
    /\ Compile(schema.value, [schema.env EXCEPT !.ignore_these_formats = names])

NextCompile ==
    \/ \E item \in CompileItems : SetValue(item)
    \/ \E key \in {item.key : item \in CompileItems} : PopValue(key)
    \/ \E b \in BOOLEAN : SetIgnoreFormats(b)
    \/ \E names \in {{}, {"date_time"}} : SetIgnoreTheseFormats(names)
    \/ \E i \in CompileInstances : Validate(i, FALSE)
    \/ \E i \in CompileInstances : Call(i, FALSE)
    \/ Return

SpecCompile == InitCompile /\ [][NextCompile]_vars

\* ------------------------------------------------ an environment in use
\* A call's arguments, as the record the instance of a call is kept in
Args(name, type) == [k |-> "args", v |-> 0, num |-> FALSE, name |-> name, type |-> type]

InitEnvironment ==
    /\ environment \in {Environment("native", strict) : strict \in BOOLEAN}
    /\ schemas = <<>>
    /\ registry = <<>>
    /\ schema = NoneSchema
    /\ ids_collide = FALSE
    /\ op = "idle"
    /\ instance = NoneV
    /\ partial = FALSE
    /\ result = Outcome
    /\ argument = NoneV
    /\ NoThreads /\ NoCycle

\* Environment.schema(value, name): the Schema object is filed in
\* env.schemas under its name, then compiled
EnvSchema(value, name) ==
    /\ op = "idle"
    /\ schema' = compile_object(value, environment, <<>>)
    /\ schemas' = (name :> schema') @@ schemas
    /\ op' = "schema"
    /\ instance' = Args(name, "")
    /\ result' = IF schema'.err # "" THEN Raise(schema'.err, TRUE, <<>>, {})
                 ELSE Ok(NoneV)
    /\ UNCHANGED <<ids_collide, partial, argument, environment, registry,
                   thread_vars, cycle_vars>>

\* Environment.primitive(name, type): sets the primitive, then
\* _recompile_schemas calls schema.compile(self) on the first cached schema:
\* compile takes no argument (TypeError).  The cached schemas hold this
\* very environment.
Primitive(name, type) ==
    /\ op = "idle"
    /\ environment' = [environment EXCEPT !.primitives = (name :> type) @@ @]
    /\ schemas' = [n \in DOMAIN schemas |-> [schemas[n] EXCEPT !.env = environment']]
    /\ op' = "primitive"
    /\ instance' = Args(name, type)
    /\ result' = IF DOMAIN schemas # {} THEN Raise("TypeError", TRUE, <<>>, {})
                 ELSE Ok(NoneV)
    /\ UNCHANGED <<schema, ids_collide, partial, argument, registry,
                   thread_vars, cycle_vars>>

\* ConstraintRegistry.add(compiler, name): files the Constraint under the
\* inflected name and returns it
Add(name, compiler) ==
    /\ op = "idle"
    /\ registry' = (underscore(name) :> compiler) @@ registry
    /\ op' = "add"
    /\ instance' = Args(name, "")
    /\ result' = Ok(NoneV)
    /\ UNCHANGED <<schema, ids_collide, partial, argument, environment, schemas,
                   thread_vars, cycle_vars>>

NextEnvironment ==
    \/ \E value \in NamedSchemas, name \in SchemaNames : EnvSchema(value, name)
    \/ \E name \in PrimitiveNames, type \in {"int", "str"} : Primitive(name, type)
    \/ \E name \in CompilerNames, compiler \in Compilers : Add(name, compiler)
    \/ Return

SpecEnvironment == InitEnvironment /\ [][NextEnvironment]_vars

\* ------------------------------------------ compiling nested raw values
\* The raw values of one schema document, by identity: nodes[x] is a raw
\* mapping that holds nothing more ("none"), holds the raw mapping
\* nodes[x].child under "entries" ("raw"), or holds a "$ref" to the path of
\* nodes[x].child ("ref").  nodes[1] is the root of the document.
Links == {"none", "raw", "ref"}
Node(link, child) == [link |-> link, child |-> child]

\* The last part of the path of a raw value in the document
\* (resolve_schema: path.rsplit("/", 1)[-1])
Paths == <<"#", "a", "b", "c">>
rsplit(x) == Paths[x]

\* One call of Environment.schema that has not returned; waits is whether
\* its compile has still to reach the schema under it
Frame(x, name) == [node |-> x, name |-> name, waits |-> nodes[x].link # "none"]

\* key = schema.name or hash(schema): the hash of an unnamed schema depends on
\* the identity of a view object, a key not in the cache yet
schema_key(name) == IF name # "" THEN name ELSE "0x" \o ToString(Cardinality(DOMAIN schemas))

\* self.schemas[key] = schema
filed(x, name) == (schema_key(name) :> [name |-> name, value |-> x]) @@ schemas

InitCycle ==
    /\ nodes \in [1..MaxNodes -> {Node(l, c) : l \in Links, c \in 1..MaxNodes}]
    /\ stack = <<>>
    /\ schemas = <<>>
    /\ environment = env
    /\ registry = <<>>
    /\ schema = NoneSchema
    /\ ids_collide = FALSE
    /\ op = "idle"
    /\ instance = NoneV
    /\ partial = FALSE
    /\ result = Outcome
    /\ argument = NoneV
    /\ NoThreads

top == stack[Len(stack)]

\* The call on top has its schema: the caller goes on
Got == [stack EXCEPT ![Len(stack)].waits = FALSE]

\* Environment.schema(root): files the Schema object, then compiles it
SchemaRoot ==
    /\ op = "idle"
    /\ schemas = <<>>
    /\ schemas' = filed(1, "")
    /\ stack' = <<Frame(1, "")>>
    /\ op' = "schema"
    /\ UNCHANGED <<schema, ids_collide, instance, partial, result, argument,
                   environment, registry, nodes, thread_vars>>

\* entries: the compiler calls env.schema(sub) on the raw mapping it holds,
\* which makes and files a new Schema object every time
Entries ==
    /\ stack # <<>> /\ top.waits
    /\ nodes[top.node].link = "raw"
    /\ Len(stack) < MaxDepth
    /\ schemas' = filed(nodes[top.node].child, "")
    /\ stack' = Append(stack, Frame(nodes[top.node].child, ""))
    /\ UNCHANGED <<schema, ids_collide, op, instance, partial, result, argument,
                   environment, registry, nodes, thread_vars>>

\* $ref: resolve_schema returns the schema filed under the name when there
\* is one, and else files and compiles the raw value the path leads to
Reference ==
    /\ stack # <<>> /\ top.waits
    /\ nodes[top.node].link = "ref"
    /\ LET name == rsplit(nodes[top.node].child)
       IN  IF name \in DOMAIN schemas
           THEN /\ stack' = Got
                /\ schemas' = schemas
           ELSE /\ Len(stack) < MaxDepth
                /\ schemas' = filed(nodes[top.node].child, name)
                /\ stack' = Append(stack, Frame(nodes[top.node].child, name))
    /\ UNCHANGED <<schema, ids_collide, op, instance, partial, result, argument,
                   environment, registry, nodes, thread_vars>>

\* schema.compile() of the call on top returns to its caller
SchemaReturns ==
    /\ stack # <<>> /\ ~top.waits
    /\ stack' = IF Len(stack) = 1 THEN <<>>
                ELSE [SubSeq(stack, 1, Len(stack) - 1) EXCEPT ![Len(stack) - 1].waits = FALSE]
    /\ result' = IF Len(stack) = 1 THEN Ok(NoneV) ELSE result
    /\ UNCHANGED <<schema, ids_collide, op, instance, partial, argument,
                   environment, schemas, registry, nodes, thread_vars>>

\* The interpreter's stack is used up by the next call: RecursionError
\* unwinds every call
Overflow ==
    /\ stack # <<>> /\ top.waits
    /\ Len(stack) = MaxDepth
    /\ \/ nodes[top.node].link = "raw"
       \/ rsplit(nodes[top.node].child) \notin DOMAIN schemas
    /\ stack' = <<>>
    /\ result' = Raise("RecursionError", TRUE, <<>>, {})
    /\ UNCHANGED <<schema, ids_collide, op, instance, partial, argument,
                   environment, schemas, registry, nodes, thread_vars>>

NextCycle ==
    \/ SchemaRoot
    \/ Entries
    \/ Reference
    \/ SchemaReturns
    \/ Overflow
    \/ Return

SpecCycle == InitCycle /\ [][NextCycle]_vars

\* --------------------------------------- one schema, a writer and a reader
\* The writer thread: pc is where it is ("idle", "mutated" after it changed
\* schema.value, "compile" inside Schema.compile), od_state the state counter
\* of the OrderedDict schema.constraints (every clear and every new key
\* changes it), tables the complete tables compile has left so far
Writer(pc, od_state, compiles, tables) ==
    [pc |-> pc, od_state |-> od_state, compiles |-> compiles, tables |-> tables]

\* The reader thread inside the loop over self.constraints.items(): at is
\* the position of the key the iterator yields next (0: none), di_state the
\* state counter the iterator took, seen the handlers it was given, results
\* and cur the loop's results and instance, end how the loop ended
Reader(pc, at, di_state, seen, results, cur, end) ==
    [pc |-> pc, at |-> at, di_state |-> di_state, seen |-> seen,
     results |-> results, cur |-> cur, end |-> end]

Idle == Reader("idle", 0, 0, <<>>, <<>>, NoneV, "")

InitThreads ==
    /\ \E v \in ThreadSchemas, strict \in BOOLEAN :
          /\ schema = compile_object(v, Environment("native", strict), <<>>)
          /\ schema.err = ""
    /\ writer = Writer("idle", 0, 0, {schema.constraints})
    /\ reader = Idle
    /\ ids_collide = FALSE
    /\ op = "idle"
    /\ instance = NoneV
    /\ partial = FALSE
    /\ result = Outcome
    /\ argument = NoneV
    /\ NoEnvironment /\ NoCycle

\* The writer changes the raw value of the schema
Mutate(value) ==
    /\ writer.pc = "idle"
    /\ writer.compiles < MaxCompiles
    /\ value # schema.value
    /\ schema' = [schema EXCEPT !.value = value]
    /\ writer' = [writer EXCEPT !.pc = "mutated"]
    /\ UNCHANGED <<ids_collide, op, instance, partial, result, argument, reader,
                   env_vars, cycle_vars>>

\* Schema.compile, first statements: self.constraints.clear() and
\* type = Undefined
Clear ==
    /\ writer.pc = "mutated"
    /\ schema' = [schema EXCEPT !.constraints = clear(@), !.type = "undef"]
    /\ writer' = [writer EXCEPT !.pc = "compile", !.od_state = @ + 1,
                                !.compiles = @ + 1]
    /\ UNCHANGED <<ids_collide, op, instance, partial, result, argument, reader,
                   env_vars, cycle_vars>>

\* The schema as this compile leaves it
compiling == compile_object(schema.value, schema.env, schema.constraints)

\* Schema.compile, one self.constraints[k] = handler (the type constraint
\* first, which also sets the type)
SetItem ==
    /\ writer.pc = "compile"
    /\ Len(schema.constraints) < Len(compiling.constraints)
    /\ LET x == Len(schema.constraints) + 1
           last == x = Len(compiling.constraints) /\ compiling.err = ""
       IN  /\ schema' = [schema EXCEPT
                            !.constraints = Append(@, compiling.constraints[x]),
                            !.type = IF compiling.constraints[x].name = "type"
                                     THEN compiling.type ELSE @]
           /\ writer' = [writer EXCEPT
                            !.od_state = @ + 1,
                            !.tables = IF last THEN @ \cup {schema'.constraints} ELSE @]
    /\ UNCHANGED <<ids_collide, op, instance, partial, result, argument, reader,
                   env_vars, cycle_vars>>

\* Schema.compile returns self, or raises with the table as far as it got
Recompiled ==
    /\ writer.pc = "compile"
    /\ Len(schema.constraints) = Len(compiling.constraints)
    /\ writer' = [writer EXCEPT
                     !.pc = "idle",
                     !.tables = IF compiling.err = "" THEN @ \cup {schema.constraints} ELSE @]
    /\ UNCHANGED <<schema, ids_collide, op, instance, partial, result, argument, reader,
                   env_vars, cycle_vars>>

\* schema.validate(i) or schema(i) in the reader: the for statement makes
\* the iterator of self.constraints.items()
Iter(i, convert) ==
    /\ op = "idle"
    /\ op' = IF convert THEN "convert" ELSE "validate"
    /\ instance' = i
    /\ reader' = Reader("loop", IF schema.constraints = <<>> THEN 0 ELSE 1,
                        writer.od_state, <<>>, <<>>, i, "")
    /\ UNCHANGED <<schema, ids_collide, partial, result, argument, writer,
                   env_vars, cycle_vars>>

\* next() on an iterator with no key left: the loop ends
StopIteration ==
    /\ reader.pc = "loop"
    /\ reader.at = 0
    /\ reader' = [reader EXCEPT !.pc = "done", !.end = "StopIteration"]
    /\ result' = IF op = "convert"
                 THEN [Ok(reader.cur) EXCEPT !.ran = [x \in DOMAIN reader.seen |-> reader.seen[x].name]]
                 ELSE SchemaValidationResult(reader.results,
                          [x \in DOMAIN reader.seen |-> reader.seen[x].name])
    /\ UNCHANGED <<schema, ids_collide, op, instance, partial, argument, writer,
                   env_vars, cycle_vars>>

\* next() after the table changed: RuntimeError (OrderedDict mutated during
\* iteration)
Mutated ==
    /\ reader.pc = "loop"
    /\ reader.at # 0
    /\ reader.di_state # writer.od_state
    /\ reader' = [reader EXCEPT !.pc = "done", !.end = "RuntimeError"]
    /\ result' = Raise("RuntimeError", TRUE, <<>>, {})
    /\ UNCHANGED <<schema, ids_collide, op, instance, partial, argument, writer,
                   env_vars, cycle_vars>>

\* The schema with the one handler the iterator yields
yielded == [schema EXCEPT !.constraints = <<schema.constraints[reader.at]>>]

\* next() yields a key and its handler, and the body of the loop runs it
Body ==
    /\ reader.pc = "loop"
    /\ reader.at # 0
    /\ reader.di_state = writer.od_state
    /\ LET h == schema.constraints[reader.at]
           r == IF op = "convert" THEN call(yielded, reader.cur, FALSE)
                ELSE validate(yielded, reader.cur, FALSE)
           seen == Append(reader.seen, h)
           at == IF reader.at < Len(schema.constraints) THEN reader.at + 1 ELSE 0
           ran == [x \in DOMAIN seen |-> seen[x].name]
       IN  IF r.tag = "raise"
           THEN /\ reader' = [reader EXCEPT !.pc = "done", !.seen = seen, !.end = "raise"]
                /\ result' = [r EXCEPT !.ran = ran]
           ELSE IF r.tag = "result" /\ h.name = "type" /\ "type" \in DOMAIN r.errors
           THEN /\ reader' = [reader EXCEPT !.pc = "done", !.seen = seen, !.end = "break",
                                            !.results = r.errors @@ @]
                /\ result' = SchemaValidationResult(r.errors @@ reader.results, ran)
           ELSE /\ reader' = [reader EXCEPT
                                 !.at = at, !.seen = seen,
                                 !.results = IF r.tag = "result" THEN r.errors @@ @ ELSE @,
                                 !.cur = IF r.tag = "ok" THEN r.val ELSE @]
                /\ result' = result
    /\ UNCHANGED <<schema, ids_collide, op, instance, partial, argument, writer,
                   env_vars, cycle_vars>>

\* The reader's caller has looked at what the call returned or raised
ReaderReturn ==
    /\ reader.pc = "done"
    /\ reader' = Idle
    /\ op' = "idle"
    /\ instance' = NoneV
    /\ result' = Outcome
    /\ UNCHANGED <<schema, ids_collide, partial, argument, writer, env_vars, cycle_vars>>

NextThreads ==
    \/ \E value \in ThreadSchemas : Mutate(value)
    \/ Clear
    \/ SetItem
    \/ Recompiled
    \/ \E i \in ThreadInstances, convert \in BOOLEAN : Iter(i, convert)
    \/ StopIteration
    \/ Mutated
    \/ Body
    \/ ReaderReturn

SpecThreads == InitThreads /\ [][NextThreads]_vars

\* ================================================================== claims
Names(s) == [x \in DOMAIN s.constraints |-> s.constraints[x].name]
Called == op \in {"validate", "convert"}

\* The handler h fails on instance i in check-only mode: it raises, an
\* inapplicable constraint counting only in a strict schema
Fails(s, h, i, p) ==
    LET r == Handle(h, i, FALSE, p)
    IN r.tag = "raise" /\ (r.exc = "ConstraintNotApplicable" => s.strict)

\* C1: validate never raises: for every compiled schema and every instance
\* it returns a result object.
C1_ValidateNeverRaises == op = "validate" => result.tag = "result"

\* C2: convert runs the handlers in order and, when it does not return,
\* raises a ConstraintFailure whose path begins with the name of the handler
\* that failed, which is the last handler invoked.
C2_ConvertRaisesConstraintFailure ==
    op = "convert" =>
        \/ result.tag = "ok" /\ result.ran = Names(schema)
        \/ /\ result.tag = "raise"
           /\ result.exc = "ConstraintFailure"
           /\ result.ran # <<>>
           /\ result.path # <<>>
           /\ result.path[1] = result.ran[Len(result.ran)]

\* C3: whenever convert(i) returns, validate(convert(i)) is truthy.
C3_ConvertedValueValidates ==
    (op = "convert" /\ result.tag = "ok") =>
        LET v == validate(schema, result.val, partial)
        IN v.tag = "result" /\ v.success

\* C4: in validate a failing "type" handler ends the scan and is the only
\* entry; a failure of any other handler does not end it: all handlers are
\* run and each failing one is reported.
C4_OnlyTypeFailureIsTerminal ==
    op = "validate" =>
        IF schema.constraints # <<>> /\ schema.constraints[1].name = "type"
           /\ Fails(schema, schema.constraints[1], instance, partial)
        THEN result.ran = <<"type">> /\ DOMAIN result.errors = {"type"}
        ELSE /\ result.ran = Names(schema)
             /\ \A x \in DOMAIN schema.constraints :
                   Fails(schema, schema.constraints[x], instance, partial)
                       => schema.constraints[x].name \in DOMAIN result.errors

\* C5 (as claimed): the result has one entry per handler run, the failure
\* for a handler that failed and null for one that succeeded, and success
\* is false iff some entry is non-null.
C5_OneEntryPerHandlerRun ==
    (op = "validate" /\ result.tag = "result") =>
        /\ DOMAIN result.errors = {result.ran[x] : x \in DOMAIN result.ran}
        /\ \A x \in DOMAIN result.ran :
              result.errors[result.ran[x]].exc # ""
                  <=> Fails(schema, schema.constraints[x], instance, partial)
        /\ result.success
              <=> \A n \in DOMAIN result.errors : result.errors[n].exc = ""

\* C5 (amended): the result has one entry per handler that was run and
\* failed, keyed by the handler's name and holding its ConstraintFailure; a
\* handler that succeeded has no entry; success is false iff there is an
\* entry.
C5_OneEntryPerFailedHandler ==
    (op = "validate" /\ result.tag = "result") =>
        /\ DOMAIN result.errors =
              {result.ran[x] :
                  x \in {y \in DOMAIN result.ran :
                            Fails(schema, schema.constraints[y], instance, partial)}}
        /\ \A n \in DOMAIN result.errors :
              /\ result.errors[n].exc = "ConstraintFailure"
              /\ result.errors[n].path[1] = n
        /\ result.success <=> DOMAIN result.errors = {}

\* a validate that ran several handlers, of which some failed and some not
C5_Witness ==
    /\ op = "validate" /\ result.tag = "result"
    /\ DOMAIN result.errors # {}
    /\ Cardinality(DOMAIN result.errors) < Len(result.ran)
    /\ ~result.success

\* C6: a schema whose constraints are a maximum m, possibly with
\* exclusive_maximum and the declared type int, on an integer instance i:
\* non-exclusive, validate(i) is truthy iff i <= m and convert(i) is i when
\* i <= m and m otherwise; exclusive, validate(i) is truthy iff i < m and
\* convert(i) raises when i >= m and returns i otherwise.
IsMaximumSchema(s) ==
    /\ s.err = ""
    /\ HasKey(s.value, "maximum")
    /\ \A x \in DOMAIN s.value :
          \/ s.value[x].key \in {"maximum", "exclusive_maximum"}
          \/ s.value[x] = TypeC("int")

C6_Maximum ==
    (Called /\ IsMaximumSchema(schema) /\ instance.k = "int") =>
        LET m == ItemOf(schema.value, "maximum").n
            excl == GetExclusiveMaximum(schema.env, schema.value)
            i == instance.v
            within == IF excl THEN i < m ELSE i <= m
        IN IF op = "validate"
           THEN result.tag = "result" /\ (result.success <=> within)
           ELSE IF within THEN result.tag = "ok" /\ result.val = instance
           ELSE IF excl THEN result.tag = "raise"
           ELSE result.tag = "ok" /\ result.val = IntV(m)

\* a convert that clamped an instance above a non-exclusive maximum
C6_Witness ==
    /\ op = "convert" /\ IsMaximumSchema(schema) /\ instance.k = "int"
    /\ ~GetExclusiveMaximum(schema.env, schema.value)
    /\ instance.v > ItemOf(schema.value, "maximum").n
    /\ result.tag = "ok" /\ result.val = IntV(ItemOf(schema.value, "maximum").n)

\* The sub-schemas of the only constraint of a one-key schema, compiled
Only(s, key) == s.err = "" /\ Len(s.value) = 1 /\ s.value[1].key = key
Subs(s) == s.constraints[1].subs
Validates(s, i, p) == LET r == validate(s, i, p) IN r.tag = "result" /\ r.success
Passed == IF op = "validate" THEN result.tag = "result" /\ result.success
          ELSE result.tag = "ok"
Least(S) == CHOOSE x \in S : \A y \in S : x <= y

\* C7: oneOf succeeds iff exactly one position of the list holds a
\* sub-schema that validates the unconverted instance, also when the list
\* repeats a sub-schema; in convert mode the outcome is that of the convert
\* of the one matching sub-schema.
C7_OneOfExactlyOne ==
    (Called /\ Only(schema, "one_of")) =>
        LET matching == {x \in DOMAIN Subs(schema) :
                            Validates(Subs(schema)[x], instance, partial)}
            one == call(Subs(schema)[Least(matching)], instance, partial)
        IN IF Cardinality(matching) # 1 THEN ~Passed
           ELSE IF op = "validate" THEN Passed
           ELSE result.tag = one.tag /\ result.val = one.val

\* C8: anyOf in convert mode returns what the first sub-schema, in declared
\* order, whose convert succeeds returns, and raises when no sub-schema's
\* convert succeeds.
C8_AnyOfConvert ==
    (op = "convert" /\ Only(schema, "any_of")) =>
        LET cs == [x \in DOMAIN Subs(schema) |->
                      call(Subs(schema)[x], instance, partial)]
            oks == {x \in DOMAIN cs : cs[x].tag = "ok"}
        IN IF oks = {} THEN result.tag = "raise"
           ELSE result.tag = "ok" /\ result.val = cs[Least(oks)].val

\* C9: allOf, for an instance of any kind and strict or not: validate
\* succeeds iff every sub-schema validates the instance and otherwise
\* reports every failing sub-schema under the key of its index; convert
\* applies the converts of the sub-schemas in order, threading the value.
C9_AllOf ==
    (Called /\ Only(schema, "all_of")) =>
        LET rs == ValidateAll(Subs(schema), instance, partial)
            all == \A x \in DOMAIN rs : rs[x].tag = "result" /\ rs[x].success
            threaded == all_of_convert(Subs(schema), 1, instance, partial)
        IN IF op = "validate"
           THEN /\ result.tag = "result"
                /\ result.success <=> all
                /\ ~all => /\ "all_of" \in DOMAIN result.errors
                           /\ result.errors["all_of"].sub = Failing(rs, "allof")
           ELSE /\ result.tag = threaded.tag
                /\ threaded.tag = "ok" => result.val = threaded.val

\* C10: if/then/else: the chosen branch is `then` when the `if` sub-schema
\* validates the instance and `else` otherwise; the instance passes iff
\* that branch is absent or accepts the instance in the caller's mode; with
\* an absent branch convert returns the instance unchanged; a failure of
\* the chosen branch has the segment "then" or "else" in its path.
C10_IfThenElse ==
    (Called /\ schema.err = "" /\ HasKey(schema.value, "if")) =>
        LET h == schema.constraints[1]
            branch == IF Validates(h.subs[1], instance, FALSE)
                      THEN "then" ELSE "else"
            sub == IF branch = "then" THEN h.subs[2] ELSE h.subs[3]
            accepts == IF op = "validate" THEN Validates(sub, instance, partial)
                       ELSE call(sub, instance, partial).tag = "ok"
            path == IF op = "convert" THEN result.path
                    ELSE IF result.tag = "result" /\ "if" \in DOMAIN result.errors
                    THEN result.errors["if"].path
                    ELSE <<>>
        IN IF sub.none
           THEN Passed /\ (op = "convert" => result.val = instance)
           ELSE /\ Passed <=> accepts
                /\ ~accepts => \E x \in DOMAIN path : path[x] = branch

\* C11: a schema that holds only a `required` constraint: with partial true
\* validate and convert succeed for every instance and every list of
\* required keys; with partial false they fail iff some required key is
\* absent from the instance.
C11_Required ==
    (Called /\ Only(schema, "required")) =>
        LET ks == schema.value[1].keys
            absent == \E x \in DOMAIN ks :
                         ~(instance.k = "dict" /\ DictHas(instance, ks[x]))
        IN IF partial THEN Passed ELSE (Passed <=> ~absent)

\* C12: items as a positional list of n sub-schemas, on a list instance:
\* validate succeeds iff the instance has at least n elements, each of the
\* first n validates against the sub-schema at its position, and the
\* elements beyond n satisfy the additional_items policy (absent: any;
\* false: none allowed; a sub-schema: each validates against it).  An
\* instance with fewer than n elements fails under every policy.
IsPositionalItems(s) ==
    /\ s.err = "" /\ s.value # <<>>
    /\ s.value[1].key = "items" /\ s.value[1].t # "mapping"

C12_PositionalItems ==
    (op = "validate" /\ IsPositionalItems(schema) /\ instance.k = "list") =>
        LET h == schema.constraints[1]
            n == Len(h.subs)
            elems == instance.items
            first == \A x \in 1 .. n : Validates(h.subs[x], elems[x], FALSE)
            extra == CASE h.t = "undefined" -> TRUE
                       [] h.t = "false" -> Len(elems) <= n
                       [] h.t = "schema" ->
                            \A x \in (n + 1) .. Len(elems) :
                                Validates(h.more[1], elems[x], FALSE)
        IN Passed <=> (Len(elems) >= n /\ first /\ extra)

\* C13: additional_entries applies exactly to the instance keys that are
\* neither declared in entries nor matched by a pattern_entries pattern, in
\* validate and convert alike: policy false, the operation fails when such
\* a key exists; policy true, such keys are accepted and their values left
\* untouched; policy sub-schema, each such value must validate against it
\* (validate) or is replaced by its convert (convert).  Stated for the
\* schemas whose only constraint is additional_entries, on dict instances,
\* where every key of the instance is such a key.
C13_AdditionalEntries ==
    (Called /\ Only(schema, "additional_entries") /\ instance.k = "dict") =>
        LET h == schema.constraints[1]
            es == instance.entries
            converted == [x \in DOMAIN es |-> call(h.subs[1], es[x].val, FALSE)]
        IN CASE h.t = "bool" /\ ~h.b -> Passed <=> es = <<>>
             [] h.t = "bool" /\ h.b ->
                  Passed /\ (op = "convert" => result.val = instance)
             [] h.t = "schema" ->
                  IF op = "validate"
                  THEN Passed <=> \A x \in DOMAIN es :
                                      Validates(h.subs[1], es[x].val, FALSE)
                  ELSE IF \A x \in DOMAIN es : converted[x].tag = "ok"
                  THEN /\ result.tag = "ok"
                       /\ result.val =
                              DictV([x \in DOMAIN es |->
                                        Entry(es[x].key, converted[x].val)])
                  ELSE result.tag = "raise"

\* The same logical schema written in the JSON Schema naming convention:
\* camel-case keys, properties for entries, and the JSON names of the types
JsonKey(key) ==
    IF key \in DOMAIN json_aliases THEN json_aliases[key] ELSE json_inflection(key)
JsonType(t) ==
    CASE t = "int" -> "integer"
      [] t = "str" -> "string"
      [] t = "float" -> "number"
      [] t = "dict" -> "object"
      [] OTHER -> t

RECURSIVE ToJson(_)
ToJson(value) ==
    [x \in DOMAIN value |->
        [value[x] EXCEPT
            !.key = JsonKey(@),
            !.t = IF value[x].key = "type" THEN JsonType(@) ELSE @,
            !.subs = [y \in DOMAIN @ |-> ToJson(@[y])]]]

\* C14: dialect equivalence: a schema written in the underscore dialect and
\* compiled by the built-in native environment, and the same schema written
\* in the JSON Schema convention and compiled by the built-in JSON
\* environment, give the same validate verdict on every instance.
C14_DialectEquivalence ==
    (op = "validate" /\ schema.env = native /\ result.tag = "result") =>
        LET j == env_schema(ToJson(schema.value), env)
            v == validate(j, instance, partial)
        IN j.err = "" /\ v.tag = "result" /\ v.success = result.success

\* C15: convert is idempotent: whenever convert(i) returns,
\* convert(convert(i)) returns too and equals convert(i).
C15_ConvertIdempotent ==
    (op = "convert" /\ result.tag = "ok") =>
        LET again == call(schema, result.val, partial)
        IN again.tag = "ok" /\ PyEq(again.val, result.val)

\* C16: a schema whose only key is a `type` given as a name: compile fails
\* with a ValueError iff the name is not in the environment's primitive
\* registry; for a registered name compile succeeds and the declared type
\* of the schema is the registered one.
C16_PrimitiveNames ==
    (Len(schema.value) = 1 /\ schema.value[1].key = "type") =>
        LET name == schema.value[1].t
        IN IF name \in DOMAIN schema.env.primitives
           THEN schema.err = "" /\ schema.type = schema.env.primitives[name]
           ELSE schema.err = "ValueError"

\* C17: a schema whose only key is a `format`: with the environment's
\* ignore_formats set, or the format's name in ignore_these_formats, the
\* schema compiles and has no handler; otherwise, for a name absent from
\* the format registry, compile fails in a strict schema, and in a lenient
\* one the schema compiles and validate and convert pass for every
\* instance.
C17_UnknownFormat ==
    (Len(schema.value) = 1 /\ schema.value[1].key = "format") =>
        LET name == schema.value[1].t
            e == schema.env
        IN IF e.ignore_formats \/ name \in e.ignore_these_formats
           THEN schema.err = "" /\ schema.constraints = <<>>
           ELSE IF name \in format_registry THEN schema.err = ""
           ELSE IF schema.strict THEN schema.err # ""
           ELSE schema.err = "" /\ (Called => Passed)

\* The (sub-schema, value) pairs the only handler of a schema delegates to:
\* items pairs positions, entries the declared names the instance has,
\* dependencies hands the whole instance to the schema of each key it has
Delegations(h, i) ==
    CASE h.constraint = "items" ->
           {<<h.subs[x], i.items[x]>> : x \in DOMAIN h.subs}
      [] h.constraint = "entries" ->
           {<<h.subs[x], DictGet(i, h.keys[x])>> :
               x \in {y \in DOMAIN h.keys : DictHas(i, h.keys[y])}}
      [] h.constraint = "dependencies" ->
           {<<h.subs[x], i>> :
               x \in {y \in DOMAIN h.keys : DictHas(i, h.keys[y])}}

IsDelegating(s, i) ==
    /\ s.err = "" /\ Len(s.value) = 1 /\ Len(s.constraints) = 1
    /\ \/ /\ s.value[1].key = "items" /\ s.value[1].t # "mapping"
          /\ i.k = "list" /\ Len(i.items) = Len(s.value[1].subs)
       \/ s.value[1].key \in {"entries", "dependencies"} /\ i.k = "dict"

\* C18: when the only handler of a schema delegates to a sub-schema (a
\* positional item, a declared entry, a dependency) and that sub-schema
\* fails, the failure that reaches the caller, raised by convert or recorded
\* by validate, is a ConstraintFailure whose path has a segment for the
\* handler, a segment for the delegation point (index or key) and the
\* segments of the sub-schema's own failure.
C18_DelegationPath ==
    (Called /\ IsDelegating(schema, instance)) =>
        LET h == schema.constraints[1]
            failed == {d \in Delegations(h, instance) :
                         IF op = "validate" THEN ~Validates(d[1], d[2], FALSE)
                         ELSE call(d[1], d[2], FALSE).tag = "raise"}
            failure == IF op = "convert" THEN result
                       ELSE IF result.tag = "result"
                               /\ h.name \in DOMAIN result.errors
                       THEN result.errors[h.name]
                       ELSE Outcome
        IN failed # {} =>
              /\ failure.exc = "ConstraintFailure"
              /\ Len(failure.path) >= 3
              /\ failure.path[1] = h.name

\* The keys of a raw value, in insertion order, and the sub-sequence
\* relation on sequences without repetition: every element of a is in b and
\* a keeps b's order
KeysOf(value) == [x \in DOMAIN value |-> value[x].key]
Position(seq, e) == CHOOSE x \in DOMAIN seq : seq[x] = e
IsSubSeq(a, b) ==
    /\ \A x \in DOMAIN a : \E y \in DOMAIN b : b[y] = a[x]
    /\ \A x, y \in DOMAIN a : x < y => Position(b, a[x]) < Position(b, a[y])

\* what Names(s) is without the handler of "type"
Untyped(names) == Select(names, [x \in DOMAIN names |-> names[x] # "type"])

\* C19: after every compile() that returns: if "type" is a key of the raw
\* value its handler is first in the table and the declared type was fixed
\* before any other constraint compiled (none of the others is wrapped in
\* the applicability check of an untyped schema); the other handlers are in
\* the insertion order of their raw keys; and the table holds handlers only
\* for keys that are in the raw value now.
C19_TableOrder ==
    schema.err = "" =>
        /\ HasKey(schema.value, "type") =>
              /\ schema.constraints # <<>>
              /\ schema.constraints[1].name = "type"
              /\ schema.type = schema.constraints[1].t
              /\ \A x \in DOMAIN schema.constraints : ~schema.constraints[x].wrap
        /\ ~HasKey(schema.value, "type") =>
              /\ schema.type = "undef"
              /\ \A x \in DOMAIN schema.constraints :
                    schema.constraints[x].name # "type"
        /\ IsSubSeq(Untyped(Names(schema)), Untyped(KeysOf(schema.value)))
        /\ \A x, y \in DOMAIN schema.constraints :
              x # y => schema.constraints[x].name # schema.constraints[y].name

\* a recompile that returned, of a raw value where "type" is not the first
\* key, another key has a handler and a third one has none
C19_Witness ==
    /\ op = "compile" /\ schema.err = ""
    /\ HasKey(schema.value, "type") /\ schema.value[1].key # "type"
    /\ Len(schema.constraints) >= 2
    /\ Len(schema.constraints) < Len(schema.value)

\* The declared types a registered constraint applies to, as its @register
\* decorator requires
AppliesTo(c, t) ==
    CASE t = "undef" -> TRUE
      [] c \in {"multiple_of", "maximum", "minimum"} -> t \in {"int", "float"}
      [] c \in {"required", "entries", "pattern_entries", "additional_entries",
                "dependencies"} -> t = "dict"
      [] c = "format" -> t = "str"
      [] c = "items" -> t = "dict"
      [] c = "all_of" -> t \in {"str", "dict"}
      [] OTHER -> TRUE

Metadata ==
    {"default", "name", "then", "else", "exclusive_maximum",
     "exclusive_minimum", "additional_items"}

C21_InapplicableHandler ==
    (Called /\ schema.err = "" /\ schema.type = "undef"
        /\ Len(schema.constraints) = 1
        /\ ~is_applicable(schema.constraints[1].constraint, instance)) =>
        LET name == schema.constraints[1].name
        IN IF ~schema.strict
           THEN /\ op = "validate" => result.tag = "result" /\ result.success
                /\ op = "convert" => result.tag = "ok" /\ result.val = instance
           ELSE /\ op = "validate" =>
                      /\ result.tag = "result"
                      /\ name \in DOMAIN result.errors
                      /\ result.errors[name].exc = "ConstraintFailure"
                /\ op = "convert" =>
                      /\ result.tag = "raise"
                      /\ result.exc = "ConstraintFailure"
                      /\ result.path # <<>>
                      /\ result.path[1] = name

\* the raw value with every `required` list, nested ones included, emptied
RECURSIVE RequiringNothing(_)
RequiringNothing(value) ==
    [x \in DOMAIN value |->
        [value[x] EXCEPT
            !.keys = IF value[x].key = "required" THEN <<>> ELSE @,
            !.subs = [y \in DOMAIN @ |-> RequiringNothing(@[y])]]]

\* C30: the partial flag reaches every nested sub-schema: with partial true,
\* a schema whose only handler delegates (entries, pattern_entries,
\* additional_entries, items, dependencies) to sub-schemas holding a
\* `required` constraint gives, in validate and in convert, the verdict it
\* would give if those sub-schemas required nothing, as a top-level
\* `required` does.
C30_PartialReachesSubSchemas ==
    (Called /\ partial /\ schema.err = "" /\ Len(schema.value) = 1
        /\ schema.value[1].key \in {"entries", "pattern_entries",
                                    "additional_entries", "items", "dependencies"}) =>
        LET s == env_schema(RequiringNothing(schema.value), schema.env)
        IN Passed <=> IF op = "validate" THEN Validates(s, instance, TRUE)
                      ELSE call(s, instance, TRUE).tag = "ok"

\* a == b between Python values, containers compared element by element
RECURSIVE Equal(_, _)
Equal(a, b) ==
    CASE a.k = "list" /\ b.k = "list" ->
           /\ Len(a.items) = Len(b.items)
           /\ \A x \in DOMAIN a.items : Equal(a.items[x], b.items[x])
      [] a.k = "dict" /\ b.k = "dict" ->
           /\ {e.key : e \in {a.entries[x] : x \in DOMAIN a.entries}}
                 = {e.key : e \in {b.entries[x] : x \in DOMAIN b.entries}}
           /\ \A x \in DOMAIN a.entries :
                 Equal(a.entries[x].val, DictGet(b, a.entries[x].key))
      [] OTHER -> PyEq(a, b)

\* C26: validate and convert agree on valid input: whenever validate(i) is
\* truthy, convert(i) does not raise and returns a value equal to i.
C26_ConvertKeepsValidInput ==
    (op = "validate" /\ result.tag = "result" /\ result.success) =>
        LET r == call(schema, instance, partial)
        IN r.tag = "ok" /\ Equal(r.val, instance)

\* C28: convert never modifies the mapping the caller passed: after a
\* convert, also one that raised on some key of entries, pattern_entries or
\* additional_entries, the caller's object holds its original values for
\* all keys.
C28_ConvertLeavesArgument == op = "convert" => argument = instance

\* C29: validate and convert leave the schema's raw value unchanged,
\* including the order of the keys listed under `required`.
C29_RawValueUnchanged == [][Called' => schema'.value = schema.value]_vars

\* C24: after Environment.primitive(name, type) on an environment whose
\* cache holds any number of schemas, the call has completed normally, the
\* primitive registry maps name to type, and every cached schema is
\* compiled against the updated registry.
C24_PrimitiveRecompiles ==
    op = "primitive" =>
        /\ result.tag = "ok"
        /\ instance.name \in DOMAIN environment.primitives
        /\ environment.primitives[instance.name] = instance.type
        /\ \A n \in DOMAIN schemas :
              schemas[n] = compile_object(schemas[n].value, environment, <<>>)

\* C25: registering a constraint under a name that, after inflection, is
\* already taken fails with a name-collision error and leaves the existing
\* definition in place (add has no parameter to ask for an overwrite).
C25_NameCollision ==
    [][(op' = "add" /\ underscore(instance'.name) \in DOMAIN registry) =>
          (result'.tag = "raise" /\ registry' = registry)]_vars

\* C27: if Environment.schema(value, name) raises during compilation, the
\* environment's cache is unchanged: no entry for the failed schema is added
\* and get_schema(name) returns what it returned before the call.
C27_FailedSchemaNotCached ==
    [][(op' = "schema" /\ result'.tag = "raise") => schemas' = schemas]_vars

\* C23: compiling a schema that references itself, directly or transitively
\* (through a nested raw mapping or through a $ref to a schema still being
\* compiled), terminates: no raw value is entered under the same name while a
\* call that entered it so is still compiling, so the calls in progress are
\* bounded by the document and the interpreter's stack is never used up.
C23_CompileTerminates ==
    /\ \A x, y \in DOMAIN stack :
          (stack[x].node = stack[y].node /\ stack[x].name = stack[y].name) => x = y
    /\ result.exc # "RecursionError"

\* Whether the sequence s starts the sequence t
Prefix(s, t) == Len(s) <= Len(t) /\ SubSeq(t, 1, Len(s)) = s

\* C22: when one thread recompiles a schema while another runs validate or
\* convert on it, the reader never observes a partially updated handler
\* table: the handlers a finished validate/convert was given are those of
\* one complete table, old or new (all of them when the loop ran to its end),
\* never of an empty or half-filled one, and no iteration fails on a table
\* changing under it.
C22_ReaderSeesCompleteTable ==
    reader.pc = "done" =>
        /\ reader.end # "RuntimeError"
        /\ \E table \in writer.tables :
              /\ Prefix(reader.seen, table)
              /\ reader.end = "StopIteration" => reader.seen = table

====
